---- MODULE Spec2Model ----
(***************************************************************************)
(* SmtpCheckService.isEmailValid (the {smtp, catchall} prober): the MX     *)
(* loop, the SMTP conversation of one session, the catch-all response      *)
(* cache and the QUIT/destroy cleanup, one action per await of the code.   *)
(***************************************************************************)
EXTENDS Integers, Sequences, FiniteSets, TLC

VARIABLES responseCache, now, probe, dummyLog, reader, verify, lookup, server

vars == <<responseCache, now, probe, dummyLog, reader, verify, lookup, server>>

(* ------------------------------------------------------------------ *)
(* Bounds of the model                                                 *)
(* ------------------------------------------------------------------ *)

\* longest MX answer the resolver gives (one record per host of Hosts)
MaxMx == 2
\* how many times the clock advances
MaxTicks == 2

(* ------------------------------------------------------------------ *)
(* Program constants                                                   *)
(* ------------------------------------------------------------------ *)

cacheTTL == 3600000

SMTP_PORTS_Submission_First == <<587, 25, 465>>

SMTP_PORTS == <<25, 587, 465>>

dummyUser == "gibberishasdfasdf"

sender == "relja@getastromail.com"

heloHost == "getastromail.com"

CatchAllTag == "catch-all"

\* milliseconds the clock advances by in one step: half the cache TTL
TickStep == cacheTTL \div 2

(* ------------------------------------------------------------------ *)
(* Inputs                                                              *)
(* ------------------------------------------------------------------ *)

\* callers of isEmailValid on the one SmtpCheckService instance
Probes == {"p1", "p2"}

Domains == {"", "example.com"}

LocalParts == {"", "alice"}

Hosts == {"mx1.example.com", "mx2.example.com"}

Priorities == {10, 20}

MxHost == [exchange : Hosts, priority : Priorities]

\* what dns.resolveMx can answer: records of distinct exchanges in any
\* order, the lowest priority among them being the lowest of Priorities
MxAnswers ==
  {s \in UNION {[1..n -> MxHost] : n \in 0..MaxMx} :
     /\ \A a, b \in DOMAIN s : a # b => s[a].exchange # s[b].exchange
     /\ s # <<>> => \E a \in DOMAIN s :
                      \A q \in Priorities : s[a].priority <= q}

\* the last complete line of a server reply, as readResponse hands it on
Messages ==
  {"220 ready", "250 OK", "250 STARTTLS", "450 try later",
   "550 no such user", "550 mailbox disabled"}

\* replies a server gives to the first EHLO: a server that insists on TLS may
\* name STARTTLS in its rejection
EhloMessages == Messages \cup {"530 STARTTLS first"}

\* replies a server gives to RCPT TO
RcptMessages ==
  {"250 OK", "450 try later", "550 no such user", "550 mailbox disabled"}

\* readResponse rejects: its timer fired, with the socket alive or after the
\* socket failed (readResponse itself listens to 'data' only)
ReadTimeout == "<timeout>"
ReadFailures == {ReadTimeout}

(* ------------------------------------------------------------------ *)
(* Pure helpers                                                        *)
(* ------------------------------------------------------------------ *)

\* parseInt(lastLine.substring(0, 3), 10)
CodeOf(m) ==
  CASE m = "220 ready" -> 220
    [] m = "250 OK" -> 250
    [] m = "250 STARTTLS" -> 250
    [] m = "450 try later" -> 450
    [] m = "530 STARTTLS first" -> 530
    [] m = "550 no such user" -> 550
    [] m = "550 mailbox disabled" -> 550
    [] OTHER -> 0

\* message.includes('STARTTLS')
IncludesSTARTTLS(m) == m \in {"250 STARTTLS", "530 STARTTLS first"}

RECURSIVE InsertMx(_, _)
InsertMx(s, x) ==
  IF s = <<>> THEN <<x>>
  ELSE IF x.priority < Head(s).priority THEN <<x>> \o s
  ELSE <<Head(s)>> \o InsertMx(Tail(s), x)

SortMxUnsorted(s) == s

\* mxRecords.sort((a, b) => a.priority - b.priority): a stable sort
RECURSIVE SortMx(_)
SortMx(s) ==
  IF s = <<>> THEN <<>>
  ELSE InsertMx(SortMx(SubSeq(s, 1, Len(s) - 1)), s[Len(s)])

\* `${domain}_${mxServer}`
CacheKey(domain, mxServer) == <<domain, mxServer>>

CacheKeys == {CacheKey(d, h) : d \in Domains \ {""}, h \in Hosts}

\* what Map.get gives for a key never set
NoEntry == [has |-> FALSE, response |-> "", timestamp |-> 0]

Entry(response, timestamp) ==
  [has |-> TRUE, response |-> response, timestamp |-> timestamp]

NoVerdict == [has |-> FALSE, smtp |-> FALSE, catchall |-> FALSE]

Verdict(smtp, catchall) == [has |-> TRUE, smtp |-> smtp, catchall |-> catchall]

Pending == [kind |-> "pending", smtp |-> FALSE, catchall |-> FALSE]

Rejected == [kind |-> "rejected", smtp |-> FALSE, catchall |-> FALSE]

Returned(smtp, catchall) ==
  [kind |-> "returned", smtp |-> smtp, catchall |-> catchall]

Cmd(verb, arg) == [verb |-> verb, arg |-> arg]

\* a probe's locals before a call; sent holds the commands written in the
\* current session, acks whether each was answered with the code the caller
\* tests for; live counts the sockets of the call that are connected and not
\* destroyed, tried the ports tryConnect was called with for
\* the current record; contacted (the records createConnection
\* was called for), failed (the records whose session threw) and rcpt,
\* rcptAt (the reply to the real RCPT TO and the record it came from) are
\* kept for the whole call
Idle ==
  [pc |-> "idle", domain |-> "", localPart |-> "",
   resolved |-> <<>>, mx |-> <<>>, i |-> 0,
   cached |-> NoEntry, headNow |-> 0,
   socket |-> "none", portIdx |-> 0, port |-> 0, secure |-> FALSE,
   ehlo |-> "", dummy |-> "", rcpt |-> "", rcptAt |-> 0,
   sent |-> <<>>, acks |-> <<>>, contacted |-> <<>>, failed |-> {},
   live |-> 0, tried |-> <<>>,
   verdict |-> NoVerdict, result |-> Pending]

(* ------------------------------------------------------------------ *)
(* Control flow of one call                                            *)
(* ------------------------------------------------------------------ *)

IsFreshReversed(cached, t) == cached.has /\ t - cached.timestamp > cacheTTL

\* cached && Date.now() - cached.timestamp < this.cacheTTL
IsFresh(cached, t) == cached.has /\ t - cached.timestamp < cacheTTL

\* the locals of one loop iteration, as a new iteration starts
NewSession(rec) ==
  [rec EXCEPT !.cached = NoEntry, !.headNow = 0, !.socket = "none",
              !.portIdx = 0, !.port = 0, !.secure = FALSE, !.ehlo = "",
              !.dummy = "", !.sent = <<>>, !.acks = <<>>, !.tried = <<>>,
              !.verdict = NoVerdict]

LoopHeadForgetsCache(rec, i, cache, t) ==
  IF i > Len(rec.mx)
  THEN [NewSession(rec) EXCEPT !.pc = "done", !.i = i,
                               !.result = Returned(FALSE, FALSE)]
  ELSE [NewSession(rec) EXCEPT !.i = i, !.headNow = t, !.pc = "connect",
                               !.portIdx = 1, !.contacted = Append(@, i)]

\* the head of `for (const mx of sortedMxRecords)` for record i, up to the
\* await of createConnection; past the last record, the final return
LoopHead(rec, i, cache, t) ==
  IF i > Len(rec.mx)
  THEN [NewSession(rec) EXCEPT !.pc = "done", !.i = i,
                               !.result = Returned(FALSE, FALSE)]
  ELSE LET cached == cache[CacheKey(rec.domain, rec.mx[i].exchange)]
           session == [NewSession(rec) EXCEPT !.i = i, !.cached = cached,
                                              !.headNow = t]
       IN  IF IsFresh(cached, t) /\ cached.response = CatchAllTag
           THEN [session EXCEPT !.pc = "done",
                                !.verdict = Verdict(TRUE, TRUE),
                                !.result = Returned(TRUE, TRUE)]
           ELSE [session EXCEPT !.pc = "connect", !.portIdx = 1,
                                !.contacted = Append(@, i)]

AfterFinallyGivesUp(rec, cache, t) ==
  IF rec.verdict.has
  THEN [rec EXCEPT !.pc = "done",
                   !.result = Returned(rec.verdict.smtp, rec.verdict.catchall)]
  ELSE [rec EXCEPT !.pc = "done", !.result = Returned(FALSE, FALSE)]

\* what follows the finally block: the pending return, or `continue`
AfterFinally(rec, cache, t) ==
  IF rec.verdict.has
  THEN [rec EXCEPT !.pc = "done",
                   !.result = Returned(rec.verdict.smtp, rec.verdict.catchall)]
  ELSE LoopHead(rec, rec.i + 1, cache, t)

\* socket.write(command + '\r\n') and the await of readResponse
Send(rec, cmd, pc) == [rec EXCEPT !.sent = Append(@, cmd), !.pc = pc]

FinallyWithoutQuit(rec, cache, t) == AfterFinally(rec, cache, t)

\* the finally block: QUIT when a socket is open, nothing otherwise
Finally(rec, cache, t) ==
  IF rec.socket = "open"
  THEN Send(rec, Cmd("QUIT", ""), "quit")
  ELSE AfterFinally(rec, cache, t)

\* an exception inside the try: catch, log, finally, continue
Throw(rec, cache, t) ==
  Finally([rec EXCEPT !.failed = @ \cup {rec.i}], cache, t)

\* a return inside the try: the value waits for the finally block
Return(rec, v, cache, t) == Finally([rec EXCEPT !.verdict = v], cache, t)

\* socket.destroy(), which does nothing to a destroyed socket
Destroy(rec) ==
  IF rec.socket = "open"
  THEN [rec EXCEPT !.socket = "destroyed", !.live = @ - 1]
  ELSE rec

ArrivalsWithoutTimer(rec, messages) ==
  IF rec.socket = "open" THEN messages ELSE {}

\* what a pending readResponse can settle with: one of the messages while
\* the socket is alive, the timeout in any case
Arrivals(rec, messages) ==
  IF rec.socket = "open" THEN messages \cup ReadFailures ELSE ReadFailures

\* what readResponse leaves behind after a command: whether the reply it
\* resolved with has the code the caller tests for
Received(rec, r, code) ==
  IF r \in ReadFailures
  THEN rec
  ELSE [rec EXCEPT !.acks = Append(@, CodeOf(r) = code)]

AfterHelloSkipsMailFrom(rec, ehlo) ==
  IF IncludesSTARTTLS(ehlo)
  THEN Send(rec, Cmd("STARTTLS", ""), "starttls")
  ELSE Send(rec, Cmd("RCPT TO", rec.localPart), "rcpt")

\* the STARTTLS test on the first EHLO reply, and the command after it
AfterHello(rec, ehlo) ==
  IF IncludesSTARTTLS(ehlo)
  THEN Send(rec, Cmd("STARTTLS", ""), "starttls")
  ELSE Send(rec, Cmd("MAIL FROM", sender), "mailfrom")

NeedsDummyAlways(cached) == TRUE

\* if (!cached): the dummy probe is sent
NeedsDummy(cached) == ~cached.has

DummyEntryKeepsText(dummyTest, t) == Entry(dummyTest, t)

\* the cache entry written after the reply to the dummy RCPT TO
DummyEntry(dummyTest, t) ==
  IF CodeOf(dummyTest) = 250
  THEN Entry(CatchAllTag, t)
  ELSE Entry(dummyTest, t)

RcptVerdictNot550(cached, rcpt) ==
  IF cached.has /\ cached.response # CatchAllTag
  THEN Verdict(rcpt # cached.response, FALSE)
  ELSE Verdict(CodeOf(rcpt) # 550, FALSE)

RcptVerdictFlagsCatchAll(cached, rcpt) ==
  IF cached.has /\ cached.response # CatchAllTag
  THEN Verdict(rcpt # cached.response, rcpt = cached.response)
  ELSE Verdict(CodeOf(rcpt) = 250, FALSE)

\* the verdict after the reply to the real RCPT TO
RcptVerdict(cached, rcpt) ==
  IF cached.has /\ cached.response # CatchAllTag
  THEN Verdict(rcpt # cached.response, FALSE)
  ELSE Verdict(CodeOf(rcpt) = 250, FALSE)

\* what is known of the dummy RCPT TOs of one (domain, MX): whether one was
\* written to a socket and its reply has not arrived, and the time the last
\* reply to one arrived (Never: there is none)
Never == 0 - 1

NoDummy == [unanswered |-> FALSE, answered |-> Never]

DummyWritten(log, t) == [log EXCEPT !.unanswered = TRUE]

DummyAnswered(log, t) == [log EXCEPT !.unanswered = FALSE, !.answered = t]

(* ------------------------------------------------------------------ *)
(* readResponse, byte by byte                                          *)
(* ------------------------------------------------------------------ *)

CR == "\\r"
LF == "\\n"

Digits == {"0", "2", "5", "9"}

\* parseInt of one digit
DigitValue(c) ==
  CASE c = "0" -> 0
    [] c = "2" -> 2
    [] c = "5" -> 5
    [] c = "9" -> 9

\* the lines a server sends, without their CRLF; S stands for the text
\* STARTTLS, x for any other text
Line220 == <<"2", "2", "0", " ", "x">>
Line250 == <<"2", "5", "0", " ", "x">>
Line250DashS == <<"2", "5", "0", "-", "S">>
Line999 == <<"9", "9", "9", " ", "x">>
LineXX == <<"x", "x">>

\* the replies a server sends: to the connection, to EHLO, and to the
\* command after EHLO
Greetings == {<<Line220>>, <<LineXX, Line220>>, <<Line999>>}
EhloReplies == {<<Line250>>, <<Line250DashS, Line250>>, <<Line999>>}
LaterReplies == {<<Line250>>, <<Line220>>}

Scripts ==
  {<<g, e, l>> : g \in Greetings, e \in EhloReplies, l \in LaterReplies}

RECURSIVE Bytes(_)
\* the bytes of a reply: each line followed by CRLF
Bytes(reply) ==
  IF reply = <<>>
  THEN <<>>
  ELSE Head(reply) \o <<CR, LF>> \o Bytes(Tail(reply))

\* buffer.includes('\r\n')
IncludesCRLF(buffer) ==
  \E k \in 1..(Len(buffer) - 1) : buffer[k] = CR /\ buffer[k + 1] = LF

RECURSIVE Split(_, _)
\* buffer.split('\r\n'), with line the piece collected so far
Split(buffer, line) ==
  IF buffer = <<>>
  THEN <<line>>
  ELSE IF Len(buffer) >= 2 /\ buffer[1] = CR /\ buffer[2] = LF
  THEN <<line>> \o Split(SubSeq(buffer, 3, Len(buffer)), <<>>)
  ELSE Split(Tail(buffer), Append(line, Head(buffer)))

\* /^\d{3}/.test(lastLine), for a lastLine that is not empty
StartsWithCode(lastLine) ==
  Len(lastLine) >= 3 /\ \A k \in 1..3 : lastLine[k] \in Digits

\* parseInt(lastLine.substring(0, 3), 10)
ParseCode(lastLine) ==
  100 * DigitValue(lastLine[1]) + 10 * DigitValue(lastLine[2])
    + DigitValue(lastLine[3])

NoResponse == [has |-> FALSE, code |-> 0, message |-> <<>>]

\* the 'data' listener of readResponse after buffer += data: the reply it
\* resolves with, if it resolves
OnData(buffer) ==
  IF ~IncludesCRLF(buffer)
  THEN NoResponse
  ELSE LET lines == Split(buffer, <<>>)
           lastLine == lines[Len(lines) - 1]
       IN  IF lastLine # <<>> /\ StartsWithCode(lastLine)
           THEN [has |-> TRUE, code |-> ParseCode(lastLine),
                 message |-> lastLine]
           ELSE NoResponse

\* ehlo.message.includes('STARTTLS')
MessageIncludesSTARTTLS(message) ==
  \E k \in DOMAIN message : message[k] = "S"

\* one connection seen from readResponse: script holds the replies the
\* server will send and served how many it has sent, wire the bytes on their
\* way, buffer the local of the pending readResponse, cmds what the session
\* has written and replies what readResponse resolved with
NoReader ==
  [pc |-> "idle", script |-> <<>>, served |-> 0, wire |-> <<>>,
   buffer |-> <<>>, cmds |-> <<>>, replies |-> <<>>]

Connected(script) == [NoReader EXCEPT !.pc = "greeting", !.script = script]

\* sendCommand: the write, and a new readResponse with an empty buffer
Write(rd, cmd, pc) ==
  [rd EXCEPT !.cmds = Append(@, cmd), !.buffer = <<>>, !.pc = pc]

\* what isEmailValid does with the reply a readResponse resolved with
Resolved(rd, response) ==
  LET got == [rd EXCEPT !.replies = Append(@, response)]
  IN  CASE rd.pc = "greeting" ->
             IF response.code # 220
             THEN [got EXCEPT !.pc = "aborted"]
             ELSE Write(got, "EHLO", "ehlo")
        [] rd.pc = "ehlo" ->
             IF response.code # 250
             THEN Write(got, "HELO", "later")
             ELSE IF MessageIncludesSTARTTLS(response.message)
             THEN Write(got, "STARTTLS", "later")
             ELSE Write(got, "MAIL FROM", "later")
        [] rd.pc = "later" -> [got EXCEPT !.pc = "done"]

(* ------------------------------------------------------------------ *)
(* verifyEmail: the stages and the result                              *)
(* ------------------------------------------------------------------ *)

\* a domain is its text cut into pieces, the dots among them, so that a
\* suffix of the text may start inside a label; Umlaut stands for a label
\* with a character outside ASCII
Umlaut == "b<u-umlaut>cher"

VerifyLocalParts == {"alice", "Admin", ""}

VerifyDomains ==
  {<<"example", ".", "com">>, <<"gmail", ".", "com">>,
   <<"mail", ".", "GMAIL", ".", "com">>, <<"not", "gmail", ".", "com">>,
   <<"mailinator", ".", "com">>, <<Umlaut, ".", "de">>, <<"localhost">>}

Emails == [localPart : VerifyLocalParts, domain : VerifyDomains]

\* FormatValidatorService.isValidFormat: a non-empty local part and a domain
\* with at least one dot
isValidFormat(email) ==
  /\ email.localPart # ""
  /\ \E k \in DOMAIN email.domain : email.domain[k] = "."

\* punycode.toASCII on one piece
LabelToASCII(label) == IF label = Umlaut THEN "xn--bcher-kva" ELSE label

toASCII(domain) == [k \in DOMAIN domain |-> LabelToASCII(domain[k])]

\* String.prototype.toLowerCase on a local part or a piece
LowerCase(text) ==
  CASE text = "GMAIL" -> "gmail"
    [] text = "Admin" -> "admin"
    [] OTHER -> text

toLowerCase(domain) == [k \in DOMAIN domain |-> LowerCase(domain[k])]

roleBasedEmails ==
  {"admin", "administrator", "webmaster", "hostmaster", "postmaster", "info",
   "support", "sales", "marketing", "contact", "help", "abuse", "noreply",
   "no-reply", "mail", "email", "office"}

isRoleBasedEmail(localPart) == LowerCase(localPart) \in roleBasedEmails

disposableDomains == {<<"mailinator", ".", "com">>}

isDisposableDomain(domain) == toLowerCase(domain) \in disposableDomains

wellKnownDomains ==
  {<<"gmail", ".", "com">>, <<"yahoo", ".", "com">>, <<"hotmail", ".", "com">>,
   <<"outlook", ".", "com">>, <<"aol", ".", "com">>, <<"icloud", ".", "com">>,
   <<"protonmail", ".", "com">>, <<"proton", ".", "me">>,
   <<"zoho", ".", "com">>, <<"mail", ".", "com">>, <<"gmx", ".", "com">>,
   <<"yandex", ".", "com">>, <<"microsoft", ".", "com">>,
   <<"googlemail", ".", "com">>, <<"live", ".", "com">>}

\* String.prototype.endsWith
EndsWith(text, suffix) ==
  /\ Len(text) >= Len(suffix)
  /\ SubSeq(text, Len(text) - Len(suffix) + 1, Len(text)) = suffix

EndsWithoutDot(domain, known) == EndsWith(domain, known)

\* domainBase.endsWith('.' + known)
EndsWithDot(domain, known) == EndsWith(domain, <<".">> \o known)

NothingIsWellKnown(domain) == FALSE

isWellKnownProvider(domain) ==
  LET domainBase == toLowerCase(domain)
  IN  \/ domainBase \in wellKnownDomains
      \/ \E known \in wellKnownDomains : EndsWithDot(domainBase, known)

BASE_FORMAT == 20
BASE_NOT_DISPOSABLE == 20
BASE_DOMAIN_EXISTS == 20
BASE_HAS_MX == 20
BASE_SMTP_VALID == 20
BASE_NO_CATCH_ALL == 10
VALID_THRESHOLD == 70

Min(a, b) == IF a < b THEN a ELSE b

Max(a, b) == IF a > b THEN a ELSE b

calculateScore(result) ==
  LET checks == result.checks
      score == (IF checks.formatValid THEN BASE_FORMAT ELSE 0)
               + (IF ~checks.disposable THEN BASE_NOT_DISPOSABLE ELSE 0)
               + (IF checks.domainExists THEN BASE_DOMAIN_EXISTS ELSE 0)
               + (IF checks.hasMxRecord THEN BASE_HAS_MX ELSE 0)
               + (IF checks.smtpValid THEN BASE_SMTP_VALID ELSE 0)
               + (IF ~checks.catchAll THEN BASE_NO_CATCH_ALL ELSE 0)
               + result.score
      clamped == Max(0, Min(100, score))
  IN  [result EXCEPT
         !.score = clamped,
         !.isValid = /\ clamped >= VALID_THRESHOLD
                     /\ checks.formatValid
                     /\ ~checks.disposable
                     /\ checks.hasMxRecord
                     /\ checks.smtpValid]

NoChecks ==
  [formatValid |-> FALSE, disposable |-> FALSE, domainExists |-> FALSE,
   hasMxRecord |-> FALSE, smtpValid |-> FALSE, catchAll |-> FALSE]

NoResult == [isValid |-> FALSE, checks |-> NoChecks, score |-> 0, reason |-> ""]

\* verifyEmail's locals before a call; log holds the stages that were called
\* and what each returned, io the stages that queried DNS or connected a
\* socket, caught whether the catch block ran
NoVerify ==
  [pc |-> "idle", localPart |-> "", punycodeDomain |-> <<>>,
   result |-> NoResult, log |-> <<>>, io |-> {}, caught |-> FALSE]

\* what verifyWithServer does for one MX host: it resolves true (RCPT TO
\* answered 250), resolves false (550), or rejects
ServerOutcomes == {"accepted", "rejected", "error"}

\* what dns.resolveMx and the hosts it names do during one
\* performSmtpVerification: resolveMx rejects, or resolves and each host
\* connected to behaves in one of the ways above
SmtpRuns ==
  {[resolved |-> FALSE, servers |-> <<>>]}
  \cup {[resolved |-> TRUE, servers |-> servers] :
          servers \in UNION {[1..n -> ServerOutcomes] : n \in 0..MaxMx}}

\* the MX loop of performSmtpVerification from record k on: the connections
\* made and the value returned
RECURSIVE VerifyFrom(_, _)
VerifyFrom(servers, k) ==
  IF k > Len(servers)
  THEN [ok |-> FALSE, connections |-> 0]
  ELSE IF servers[k] = "accepted"
  THEN [ok |-> TRUE, connections |-> 1]
  ELSE LET rest == VerifyFrom(servers, k + 1)
       IN  [rest EXCEPT !.connections = @ + 1]

performSmtpVerification(run) ==
  IF ~run.resolved
  THEN [ok |-> FALSE, connections |-> 0]
  ELSE VerifyFrom(run.servers, 1)

\* CatchAllService.isCatchAll: the verification of a random local part
isCatchAll(run) == performSmtpVerification(run).ok

Logged(v, stage, value) ==
  [v EXCEPT !.log = Append(@, [stage |-> stage, value |-> value])]

Did(v, stage, kinds) ==
  [v EXCEPT !.io = @ \cup {<<stage, kind>> : kind \in kinds}]

\* return this.scoringService.calculateScore(result)
Scored(v, reason) ==
  [v EXCEPT !.pc = "returned",
            !.result = calculateScore([@ EXCEPT !.reason = reason])]

CatchBlockRethrows(v) == [v EXCEPT !.pc = "threw", !.caught = TRUE]

\* the catch block of verifyEmail
CatchBlock(v) ==
  Scored([v EXCEPT !.caught = TRUE], "Verification process failed")

Check(v, flag, value) ==
  [v EXCEPT !.result.checks = [@ EXCEPT ![flag] = value]]

\* email.split('@'), punycode.toASCII, the role-based penalty, and the call
\* of the disposable check
SplitAddress(v, email) ==
  LET punycodeDomain == toASCII(email.domain)
      penalty == IF isRoleBasedEmail(email.localPart) THEN 20 ELSE 0
  IN  [v EXCEPT !.pc = "disposable",
                !.localPart = email.localPart,
                !.punycodeDomain = punycodeDomain,
                !.result.score = @ - penalty]

AfterFormatNeverReturns(v, email) == SplitAddress(v, email)

\* after the format validation: the early return, or the rest of the call
AfterFormat(v, email) ==
  IF ~v.result.checks.formatValid
  THEN Scored(v, "Invalid email format")
  ELSE SplitAddress(v, email)

\* after the MX stage has passed: the well-known shortcut, or the SMTP check
AfterMx(v) ==
  IF isWellKnownProvider(v.punycodeDomain)
  THEN Scored([Check(v, "smtpValid", TRUE) EXCEPT !.result.score = @ + 30],
                "")
  ELSE [v EXCEPT !.pc = "smtp"]

(* ------------------------------------------------------------------ *)
(* DomainCheckService: checkDomainExists and retryResolve              *)
(* ------------------------------------------------------------------ *)

\* largest retry count that is configured
MaxRetries == 1

DefaultRetries == 2
DefaultFactor == 2
DefaultMinTimeout == 1000
DefaultMaxTimeout == 5000

\* what configService.get returns: nothing, a number (from a configuration
\* loader), or the text of an environment variable; n is its value as a number
Unset == [kind |-> "undefined", n |-> 0]

Num(n) == [kind |-> "number", n |-> n]

Str(n) == [kind |-> "string", n |-> n]

Configs ==
  [DNS_RETRIES : {Unset} \cup {Num(n) : n \in 0..MaxRetries}
                         \cup {Str(n) : n \in 0..MaxRetries},
   DNS_RETRY_FACTOR : {Unset, Num(3)},
   DNS_RETRY_MIN_TIMEOUT : {Unset, Str(500)},
   DNS_RETRY_MAX_TIMEOUT : {Unset, Num(1200)}]

\* value || fallback: undefined and the number 0 are falsy, a text of digits
\* is not
Or(value, fallback) ==
  IF value = Unset \/ value = Num(0) THEN Num(fallback) ELSE value

\* attempts === options.retries
StrictEquals(attempts, value) == value = Num(attempts)

RECURSIVE Pow(_, _)
Pow(base, exponent) ==
  IF exponent = 0 THEN 1 ELSE base * Pow(base, exponent - 1)

\* the wait before the next attempt
Backoff(options, attempts) ==
  Min(options.minTimeout.n * Pow(options.factor.n, attempts),
      options.maxTimeout.n)

\* what a domain has: no registration (NXDOMAIN), or its A and AAAA records
Zones ==
  {z \in [registered : BOOLEAN, A : BOOLEAN, AAAA : BOOLEAN] :
     ~z.registered => ~z.A /\ ~z.AAAA}

\* dns.resolve: the records, the error of a negative answer, or a transport
\* error
Answers(zone, type) ==
  {IF ~zone.registered THEN "ENOTFOUND"
   ELSE IF zone[type] THEN "records" ELSE "ENODATA"} \cup {"ETIMEOUT"}

\* checkDomainExists' locals before a call; queries holds each dnsResolve
\* call and its outcome, waits the timeouts slept
NoLookup ==
  [pc |-> "idle", config |-> [DNS_RETRIES |-> Unset, DNS_RETRY_FACTOR |-> Unset,
                              DNS_RETRY_MIN_TIMEOUT |-> Unset,
                              DNS_RETRY_MAX_TIMEOUT |-> Unset],
   retryOptions |-> [retries |-> Unset, factor |-> Unset,
                     minTimeout |-> Unset, maxTimeout |-> Unset],
   zone |-> [registered |-> FALSE, A |-> FALSE, AAAA |-> FALSE],
   type |-> "", attempts |-> 0, queries |-> <<>>, waits |-> <<>>,
   result |-> FALSE]

LookupDone(l, value) == [l EXCEPT !.pc = "done", !.result = value]

\* the catch block of checkDomainExists
LookupCatch(l) == LookupDone(l, FALSE)

\* the head of retryResolve's loop for one record type
RetryResolve(l, type) == [l EXCEPT !.pc = "resolve", !.type = type]

\* retryResolve has returned false
ReturnedFalse(l) ==
  IF l.type = "A"
  THEN RetryResolve([l EXCEPT !.attempts = 0], "AAAA")
  ELSE LookupDone(l, FALSE)

(* ------------------------------------------------------------------ *)
(* performSmtpVerification and verifyWithServer (the boolean variant)  *)
(* ------------------------------------------------------------------ *)

\* first lines of the replies a server gives
SmtpLines == {"220 ready", "250 OK", "550 no such user"}

RcptLines ==
  {"250 OK", "450 try later", "550 no such user", "552 quota exceeded"}

QuitLines == {"221 bye"}

\* the first three characters of a line
FirstThree(line) ==
  CASE line = "220 ready" -> "220"
    [] line = "221 bye" -> "221"
    [] line = "250 OK" -> "250"
    [] line = "450 try later" -> "450"
    [] line = "550 no such user" -> "550"
    [] line = "552 quota exceeded" -> "552"

\* line.startsWith(prefix), /^220/.test(line)
LineStartsWith(line, prefix) == FirstThree(line) = prefix

\* line.includes('250')
LineIncludes250(line) == line \in {"250 OK"}

\* /^4\d\d/.test(line)
IsTemporary(line) == FirstThree(line) \in {"450"}

\* the locals of performSmtpVerification and of the verifyWithServer it
\* awaits: mx the number of MX records, i the record in turn, settled the
\* state of the promise verifyWithServer returned, rcpt the reply to RCPT TO,
\* quit what became of QUIT; sessions keeps these for every verifyWithServer
\* that has settled
NoServer ==
  [pc |-> "idle", mx |-> 0, i |-> 0, socket |-> "none", timer |-> "none",
   settled |-> "pending", secure |-> FALSE, rcpt |-> "", quit |-> "none",
   sessions |-> <<>>, result |-> "pending"]

\* verifyWithServer up to the 'connect' event: net.createConnection and
\* setupTimeout
NewServerSession(s, i) ==
  [s EXCEPT !.i = i, !.pc = "connect", !.socket = "connecting",
            !.timer = "armed", !.settled = "pending", !.secure = FALSE,
            !.rcpt = "", !.quit = "none"]

\* the MX loop of performSmtpVerification once verifyWithServer has settled
ServerSettled(s) ==
  LET done == [s EXCEPT !.sessions =
                 Append(@, [rcpt |-> s.rcpt, quit |-> s.quit,
                            settled |-> s.settled, socket |-> s.socket,
                            timer |-> s.timer])]
  IN  IF s.settled = "true"
      THEN [done EXCEPT !.pc = "returned", !.result = "true"]
      ELSE IF s.i < s.mx
      THEN NewServerSession(done, s.i + 1)
      ELSE [done EXCEPT !.pc = "returned", !.result = "false"]

\* resolve and reject of the promise: the first call settles it
resolve(s, value) ==
  IF s.settled = "pending"
  THEN [s EXCEPT !.settled = IF value THEN "true" ELSE "false"]
  ELSE s

reject(s) ==
  IF s.settled = "pending" THEN [s EXCEPT !.settled = "rejected"] ELSE s

removeTimeout(s) == [s EXCEPT !.timer = "none"]

\* smtpSocket.destroy(), that is cleanup(socket)
cleanup(s) == [s EXCEPT !.socket = "destroyed"]

\* the finally block of the 'connect' handler
ServerFinally(s) == ServerSettled(cleanup(removeTimeout(s)))

\* an exception in the 'connect' handler: catch, finally
ServerCatch(s) == ServerFinally(reject(s))

\* sendCommand: setupTimeout, the write, and the wait for a line
sendCommand(s, pc) == [s EXCEPT !.timer = "armed", !.pc = pc]

\* the lines after `await sendCommand('QUIT')`
SettleFromRcpt(s) ==
  IF LineStartsWith(s.rcpt, "250") THEN resolve(s, TRUE)
  ELSE IF LineStartsWith(s.rcpt, "550") THEN resolve(s, FALSE)
  ELSE reject(s)

\* the handler is awaiting a line, or the handshake
ServerWaits == {"greeting", "ehlo", "starttls", "tls", "ehlo2", "mailfrom",
                "rcpt", "quit"}

QuitFailed(s) == IF s.pc = "quit" THEN [s EXCEPT !.quit = "failed"] ELSE s

(* ------------------------------------------------------------------ *)
(* State                                                               *)
(* ------------------------------------------------------------------ *)

Init ==
  /\ responseCache = [k \in CacheKeys |-> NoEntry]
  /\ now = 0
  /\ probe = [p \in Probes |-> Idle]
  /\ dummyLog = [k \in CacheKeys |-> NoDummy]
  /\ reader = NoReader
  /\ verify = NoVerify
  /\ lookup = NoLookup
  /\ server = NoServer

Set(p, rec) == probe' = [probe EXCEPT ![p] = rec]

(* ------------------------------------------------------------------ *)
(* Actions                                                             *)
(* ------------------------------------------------------------------ *)

\* isEmailValid(domain, localPart) up to the await of resolveMx
Call(p) ==
  /\ probe[p].pc \in {"idle", "done"}
  /\ \E domain \in Domains, localPart \in LocalParts :
       LET rec == [Idle EXCEPT !.domain = domain, !.localPart = localPart]
       IN  IF localPart = "" \/ domain = ""
           THEN Set(p, [rec EXCEPT !.pc = "done",
                                   !.result = Returned(FALSE, FALSE)])
           ELSE Set(p, [rec EXCEPT !.pc = "resolveMx"])
  /\ UNCHANGED <<responseCache, now, dummyLog, reader, verify, lookup, server>>

\* dns.resolveMx rejects (ENOTFOUND, ENODATA, ETIMEOUT): nothing catches it
ResolveMxFails(p) ==
  /\ probe[p].pc = "resolveMx"
  /\ Set(p, [probe[p] EXCEPT !.pc = "done", !.result = Rejected])
  /\ UNCHANGED <<responseCache, now, dummyLog, reader, verify, lookup, server>>

\* dns.resolveMx answers: the empty check, the sort, the first loop head
ResolveMx(p) ==
  /\ probe[p].pc = "resolveMx"
  /\ \E mxRecords \in MxAnswers :
       IF Len(mxRecords) = 0
       THEN Set(p, [probe[p] EXCEPT !.pc = "done",
                                    !.result = Returned(FALSE, FALSE)])
       ELSE Set(p, LoopHead([probe[p] EXCEPT !.resolved = mxRecords,
                                             !.mx = SortMx(mxRecords)],
                            1, responseCache, now))
  /\ UNCHANGED <<responseCache, now, dummyLog, reader, verify, lookup, server>>

\* createConnection: one tryConnect, on the next port of SMTP_PORTS
TryConnect(p) ==
  /\ probe[p].pc = "connect"
  /\ \E connected \in BOOLEAN :
       LET rec == probe[p]
           try == [rec EXCEPT !.tried = Append(@, SMTP_PORTS[rec.portIdx])]
       IN  IF connected
           THEN Set(p, [try EXCEPT !.socket = "open", !.live = @ + 1,
                                   !.port = SMTP_PORTS[rec.portIdx],
                                   !.pc = "greeting"])
           ELSE IF rec.portIdx < Len(SMTP_PORTS)
           THEN Set(p, [try EXCEPT !.portIdx = @ + 1])
           ELSE Set(p, Throw(try, responseCache, now))
  /\ UNCHANGED <<responseCache, now, dummyLog, reader, verify, lookup, server>>

\* the greeting
ReadGreeting(p) ==
  /\ probe[p].pc = "greeting"
  /\ \E r \in Arrivals(probe[p], Messages) :
       LET rec == probe[p]
       IN  IF r \in ReadFailures
           THEN Set(p, Throw(rec, responseCache, now))
           ELSE IF CodeOf(r) # 220
           THEN Set(p, Throw(rec, responseCache, now))
           ELSE Set(p, Send(rec, Cmd("EHLO", heloHost), "ehlo"))
  /\ UNCHANGED <<responseCache, now, dummyLog, reader, verify, lookup, server>>

\* the reply to the first EHLO
ReadEhlo(p) ==
  /\ probe[p].pc = "ehlo"
  /\ \E r \in Arrivals(probe[p], EhloMessages) :
       LET rec == Received(probe[p], r, 250)
       IN  IF r \in ReadFailures
           THEN Set(p, Throw(rec, responseCache, now))
           ELSE IF CodeOf(r) # 250
           THEN Set(p, Send([rec EXCEPT !.ehlo = r],
                            Cmd("HELO", heloHost), "helo"))
           ELSE Set(p, AfterHello(rec, r))
  /\ UNCHANGED <<responseCache, now, dummyLog, reader, verify, lookup, server>>

\* the reply to the HELO fallback
ReadHelo(p) ==
  /\ probe[p].pc = "helo"
  /\ \E r \in Arrivals(probe[p], Messages) :
       LET rec == Received(probe[p], r, 250)
       IN  IF r \in ReadFailures
           THEN Set(p, Throw(rec, responseCache, now))
           ELSE IF CodeOf(r) # 250
           THEN Set(p, Throw(rec, responseCache, now))
           ELSE Set(p, AfterHello([rec EXCEPT !.ehlo = ""], rec.ehlo))
  /\ UNCHANGED <<responseCache, now, dummyLog, reader, verify, lookup, server>>

ReadStartTlsUpgradesAlways(p) ==
  /\ probe[p].pc = "starttls"
  /\ \E r \in Arrivals(probe[p], Messages) :
       LET rec == Received(probe[p], r, 220)
       IN  IF r \in ReadFailures
           THEN Set(p, Throw(rec, responseCache, now))
           ELSE Set(p, [rec EXCEPT !.pc = "tls"])
  /\ UNCHANGED <<responseCache, now, dummyLog, reader, verify, lookup, server>>

\* the reply to STARTTLS
ReadStartTls(p) ==
  /\ probe[p].pc = "starttls"
  /\ \E r \in Arrivals(probe[p], Messages) :
       LET rec == Received(probe[p], r, 220)
       IN  IF r \in ReadFailures
           THEN Set(p, Throw(rec, responseCache, now))
           ELSE IF CodeOf(r) = 220
           THEN Set(p, [rec EXCEPT !.pc = "tls"])
           ELSE Set(p, Send(rec, Cmd("MAIL FROM", sender), "mailfrom"))
  /\ UNCHANGED <<responseCache, now, dummyLog, reader, verify, lookup, server>>

\* the outcomes of the handshake: over a destroyed socket it can only fail
Handshakes(rec) ==
  IF rec.socket = "open"
  THEN {"secureConnect", "failed", "failedDestroyed"}
  ELSE {"failed"}

\* upgradeToTLS: the handshake succeeds, or fails or times out (the TLS
\* socket is destroyed; the wrapped socket may or may not report destroyed)
UpgradeToTLS(p) ==
  /\ probe[p].pc = "tls"
  /\ \E outcome \in Handshakes(probe[p]) :
       LET rec == probe[p]
       IN  CASE outcome = "secureConnect" ->
                  Set(p, Send([rec EXCEPT !.secure = TRUE],
                              Cmd("EHLO", heloHost), "secureEhlo"))
             [] outcome = "failed" ->
                  Set(p, Throw(rec, responseCache, now))
             [] outcome = "failedDestroyed" ->
                  Set(p, Throw(Destroy(rec), responseCache, now))
  /\ UNCHANGED <<responseCache, now, dummyLog, reader, verify, lookup, server>>

\* the reply to the EHLO sent after the TLS upgrade
ReadSecureEhlo(p) ==
  /\ probe[p].pc = "secureEhlo"
  /\ \E r \in Arrivals(probe[p], Messages) :
       LET rec == Received(probe[p], r, 250)
       IN  IF r \in ReadFailures
           THEN Set(p, Throw(rec, responseCache, now))
           ELSE IF CodeOf(r) # 250
           THEN Set(p, Throw(rec, responseCache, now))
           ELSE Set(p, Send(rec, Cmd("MAIL FROM", sender), "mailfrom"))
  /\ UNCHANGED <<responseCache, now, dummyLog, reader, verify, lookup, server>>

\* the reply to MAIL FROM, then the dummy or the real RCPT TO
ReadMailFrom(p) ==
  /\ probe[p].pc = "mailfrom"
  /\ \E r \in Arrivals(probe[p], Messages) :
       LET rec == Received(probe[p], r, 250)
       IN  IF r \in ReadFailures
           THEN Set(p, Throw(rec, responseCache, now))
           ELSE IF CodeOf(r) # 250
           THEN Set(p, Throw(rec, responseCache, now))
           ELSE IF NeedsDummy(rec.cached)
           THEN Set(p, Send(rec, Cmd("RCPT TO", dummyUser), "dummy"))
           ELSE Set(p, Send(rec, Cmd("RCPT TO", rec.localPart), "rcpt"))
  /\ dummyLog' =
       IF probe'[p].pc = "dummy"
       THEN LET k == CacheKey(probe[p].domain, probe[p].mx[probe[p].i].exchange)
            IN  [dummyLog EXCEPT ![k] = DummyWritten(@, now)]
       ELSE dummyLog
  /\ UNCHANGED <<responseCache, now, reader, verify, lookup, server>>

\* the reply to the dummy RCPT TO: the cache is set, catch-all returns
ReadDummy(p) ==
  /\ probe[p].pc = "dummy"
  /\ \E r \in Arrivals(probe[p], RcptMessages) :
       LET rec == Received(probe[p], r, 250)
           cacheKey == CacheKey(rec.domain, rec.mx[rec.i].exchange)
       IN  IF r \in ReadFailures
           THEN /\ Set(p, Throw(rec, responseCache, now))
                /\ UNCHANGED responseCache
           ELSE IF CodeOf(r) = 250
           THEN /\ responseCache' =
                     [responseCache EXCEPT ![cacheKey] = DummyEntry(r, now)]
                /\ Set(p, Return([rec EXCEPT !.dummy = r],
                                 Verdict(TRUE, TRUE), responseCache', now))
           ELSE /\ responseCache' =
                     [responseCache EXCEPT ![cacheKey] = DummyEntry(r, now)]
                /\ Set(p, Send([rec EXCEPT !.dummy = r],
                               Cmd("RCPT TO", rec.localPart), "rcpt"))
  /\ dummyLog' =
       IF probe'[p].dummy # ""
       THEN LET k == CacheKey(probe[p].domain, probe[p].mx[probe[p].i].exchange)
            IN  [dummyLog EXCEPT ![k] = DummyAnswered(@, now)]
       ELSE dummyLog
  /\ UNCHANGED <<now, reader, verify, lookup, server>>

\* the reply to the real RCPT TO: the verdict
ReadRcpt(p) ==
  /\ probe[p].pc = "rcpt"
  /\ \E r \in Arrivals(probe[p], RcptMessages) :
       LET rec == Received(probe[p], r, 250)
       IN  IF r \in ReadFailures
           THEN Set(p, Throw(rec, responseCache, now))
           ELSE Set(p, Return([rec EXCEPT !.rcpt = r, !.rcptAt = rec.i],
                              RcptVerdict(rec.cached, r), responseCache, now))
  /\ UNCHANGED <<responseCache, now, dummyLog, reader, verify, lookup, server>>

\* the finally block after QUIT: whatever the reply, socket.destroy(), then
\* the pending return or the next MX record
ReadQuit(p) ==
  /\ probe[p].pc = "quit"
  /\ \E r \in Arrivals(probe[p], {"250 OK"}) :
       Set(p, AfterFinally(Destroy(probe[p]), responseCache, now))
  /\ UNCHANGED <<responseCache, now, dummyLog, reader, verify, lookup, server>>

\* the 'error' listener tryConnect left on the socket: the socket fails
\* while the session awaits a reply or the handshake, and is destroyed
SocketError(p) ==
  /\ probe[p].socket = "open"
  /\ Set(p, Destroy(probe[p]))
  /\ UNCHANGED <<responseCache, now, dummyLog, reader, verify, lookup, server>>

\* Date.now() advances
Tick ==
  /\ now < MaxTicks * TickStep
  /\ now' = now + TickStep
  /\ UNCHANGED <<responseCache, probe, dummyLog, reader, verify, lookup, server>>

Step(p) ==
  \/ Call(p)
  \/ ResolveMxFails(p)
  \/ ResolveMx(p)
  \/ TryConnect(p)
  \/ ReadGreeting(p)
  \/ ReadEhlo(p)
  \/ ReadHelo(p)
  \/ ReadStartTls(p)
  \/ UpgradeToTLS(p)
  \/ ReadSecureEhlo(p)
  \/ ReadMailFrom(p)
  \/ ReadDummy(p)
  \/ ReadRcpt(p)
  \/ ReadQuit(p)
  \/ SocketError(p)

\* successive, non-overlapping calls on one instance
Next == Step("p1") \/ Tick

Spec == Init /\ [][Next]_vars

(* ------------------------------------------------------------------ *)
(* One connection, with the server's bytes arriving in chunks          *)
(* ------------------------------------------------------------------ *)

Reading == {"greeting", "ehlo", "later"}

session == <<responseCache, now, probe, dummyLog, verify, lookup, server>>

InitRead ==
  /\ responseCache = [k \in CacheKeys |-> NoEntry]
  /\ now = 0
  /\ probe = [p \in Probes |-> Idle]
  /\ dummyLog = [k \in CacheKeys |-> NoDummy]
  /\ verify = NoVerify
  /\ lookup = NoLookup
  /\ server = NoServer
  /\ \E script \in Scripts : reader = Connected(script)

\* the server sends its greeting, or its reply to the command it has received
ServerSends ==
  /\ reader.pc \in Reading
  /\ reader.served < Len(reader.script)
  /\ reader.served <= Len(reader.cmds)
  /\ reader' = [reader EXCEPT !.served = @ + 1,
                              !.wire = @ \o Bytes(reader.script[reader.served + 1])]
  /\ UNCHANGED session

\* a 'data' event with the next n bytes
Data ==
  /\ reader.pc \in Reading
  /\ \E n \in 1..Len(reader.wire) :
       LET data == SubSeq(reader.wire, 1, n)
           rest == SubSeq(reader.wire, n + 1, Len(reader.wire))
           rd == [reader EXCEPT !.wire = rest, !.buffer = @ \o data]
           response == OnData(rd.buffer)
       IN  reader' = IF response.has THEN Resolved(rd, response) ELSE rd
  /\ UNCHANGED session

\* the timer of readResponse: the session throws
ResponseTimeout ==
  /\ reader.pc \in Reading
  /\ reader' = [reader EXCEPT !.pc = "aborted"]
  /\ UNCHANGED session

NextRead == ServerSends \/ Data \/ ResponseTimeout

SpecRead == InitRead /\ [][NextRead]_vars

(* ------------------------------------------------------------------ *)
(* verifyEmail, one step per await                                     *)
(* ------------------------------------------------------------------ *)

notVerify == <<responseCache, now, probe, dummyLog, reader, lookup, server>>

\* the call: the format validation and, when it passes, everything up to the
\* first await
VerifyEmail(email) ==
  /\ verify.pc \in {"idle", "returned"}
  /\ LET formatValid == isValidFormat(email)
         v == Logged(Check(NoVerify, "formatValid", formatValid),
                     "format", formatValid)
     IN  verify' = AfterFormat(v, email)
  /\ UNCHANGED notVerify

\* isDisposableDomain has answered
DisposableCheck ==
  /\ verify.pc = "disposable"
  /\ LET disposable == isDisposableDomain(verify.punycodeDomain)
         v == Logged(Check(verify, "disposable", disposable),
                     "disposable", disposable)
     IN  verify' = IF disposable
                   THEN Scored(v, "Disposable email domain")
                   ELSE [v EXCEPT !.pc = "domain"]
  /\ UNCHANGED notVerify

\* isDisposableDomain has thrown
DisposableCheckThrows ==
  /\ verify.pc = "disposable"
  /\ verify' = CatchBlock(verify)
  /\ UNCHANGED notVerify

\* checkDomainExists has answered
DomainCheck ==
  /\ verify.pc = "domain"
  /\ \E domainExists \in BOOLEAN :
       LET v == Did(Logged(Check(verify, "domainExists", domainExists),
                           "domain", domainExists),
                    "domain", {"dns"})
       IN  verify' = IF ~domainExists
                     THEN Scored(v, "Domain does not exist")
                     ELSE [v EXCEPT !.pc = "mx"]
  /\ UNCHANGED notVerify

\* hasMxRecord has answered
MxCheck ==
  /\ verify.pc = "mx"
  /\ \E hasMxRecord \in BOOLEAN :
       LET v == Did(Logged(Check(verify, "hasMxRecord", hasMxRecord),
                           "mx", hasMxRecord),
                    "mx", {"dns"})
       IN  verify' = IF ~hasMxRecord
                     THEN Scored(v, "No MX records found")
                     ELSE AfterMx(v)
  /\ UNCHANGED notVerify

\* hasMxRecord has thrown
MxCheckThrows ==
  /\ verify.pc = "mx"
  /\ verify' = CatchBlock(Did(verify, "mx", {"dns"}))
  /\ UNCHANGED notVerify

\* performSmtpVerification has answered
SmtpCheck ==
  /\ verify.pc = "smtp"
  /\ \E run \in SmtpRuns :
       LET smtp == performSmtpVerification(run)
           kinds == IF smtp.connections > 0 THEN {"dns", "tcp"} ELSE {"dns"}
           v == Did(Logged(Check(verify, "smtpValid", smtp.ok),
                           "smtp", smtp.ok),
                    "smtp", kinds)
       IN  verify' = [v EXCEPT !.pc = "catchAll"]
  /\ UNCHANGED notVerify

\* isCatchAll has answered
CatchAllCheck ==
  /\ verify.pc = "catchAll"
  /\ \E run \in SmtpRuns :
       LET catchAll == isCatchAll(run)
           kinds == IF performSmtpVerification(run).connections > 0
                    THEN {"dns", "tcp"} ELSE {"dns"}
           penalty == IF catchAll THEN 15 ELSE 0
           v == Did(Logged(Check(verify, "catchAll", catchAll),
                           "catchAll", catchAll),
                    "catchAll", kinds)
       IN  verify' = Scored([v EXCEPT !.result.score = @ - penalty], "")
  /\ UNCHANGED notVerify

NextVerify ==
  \/ \E email \in Emails : VerifyEmail(email)
  \/ DisposableCheck
  \/ DisposableCheckThrows
  \/ DomainCheck
  \/ MxCheck
  \/ MxCheckThrows
  \/ SmtpCheck
  \/ CatchAllCheck

SpecVerify == Init /\ [][NextVerify]_vars

(* ------------------------------------------------------------------ *)
(* checkDomainExists, one step per await                               *)
(* ------------------------------------------------------------------ *)

notLookup == <<responseCache, now, probe, dummyLog, reader, verify, server>>

\* the call, up to the first dnsResolve of the A query
CheckDomainExists(config, zone) ==
  /\ lookup.pc \in {"idle", "done"}
  /\ LET retryOptions ==
           [retries |-> Or(config.DNS_RETRIES, DefaultRetries),
            factor |-> Or(config.DNS_RETRY_FACTOR, DefaultFactor),
            minTimeout |-> Or(config.DNS_RETRY_MIN_TIMEOUT, DefaultMinTimeout),
            maxTimeout |-> Or(config.DNS_RETRY_MAX_TIMEOUT, DefaultMaxTimeout)]
     IN  lookup' = RetryResolve([NoLookup EXCEPT !.config = config,
                                                 !.zone = zone,
                                                 !.retryOptions = retryOptions],
                                "A")
  /\ UNCHANGED notLookup

\* dnsResolve has answered
DnsResolve ==
  /\ lookup.pc = "resolve"
  /\ \E answer \in Answers(lookup.zone, lookup.type) :
       LET l == [lookup EXCEPT
                   !.queries = Append(@, [type |-> lookup.type,
                                          answer |-> answer])]
       IN  lookup' =
             IF answer = "records"
             THEN LookupDone(l, TRUE)
             ELSE IF StrictEquals(l.attempts, l.retryOptions.retries)
             THEN LookupCatch(l)
             ELSE [l EXCEPT !.pc = "sleep",
                            !.waits = Append(@, Backoff(l.retryOptions,
                                                        l.attempts))]
  /\ UNCHANGED notLookup

\* the backoff timer has fired: attempts++ and the head of the loop
Sleep ==
  /\ lookup.pc = "sleep"
  /\ LET l == [lookup EXCEPT !.attempts = @ + 1]
     IN  lookup' = IF l.attempts <= l.retryOptions.retries.n
                   THEN [l EXCEPT !.pc = "resolve"]
                   ELSE ReturnedFalse(l)
  /\ UNCHANGED notLookup

NextLookup ==
  \/ \E config \in Configs, zone \in Zones : CheckDomainExists(config, zone)
  \/ DnsResolve
  \/ Sleep

SpecLookup == Init /\ [][NextLookup]_vars

(* ------------------------------------------------------------------ *)
(* performSmtpVerification against the MX hosts of one domain          *)
(* ------------------------------------------------------------------ *)

notServer == <<responseCache, now, probe, dummyLog, reader, verify, lookup>>

\* the call, up to the await of dns.resolveMx
PerformSmtpVerification ==
  /\ server.pc \in {"idle", "returned"}
  /\ server' = [NoServer EXCEPT !.pc = "resolveMx"]
  /\ UNCHANGED notServer

\* dns.resolveMx has answered or thrown
ServerResolveMx ==
  /\ server.pc = "resolveMx"
  /\ \E n \in 0..MaxMx, throws \in BOOLEAN :
       server' = IF throws \/ n = 0
                 THEN [server EXCEPT !.pc = "returned", !.result = "false"]
                 ELSE NewServerSession([server EXCEPT !.mx = n], 1)
  /\ UNCHANGED notServer

\* the 'connect' event: the handler starts and waits for the greeting
ServerConnect ==
  /\ server.pc = "connect"
  /\ server.socket = "connecting"
  /\ server' = [server EXCEPT !.socket = "open", !.pc = "greeting"]
  /\ UNCHANGED notServer

\* waitForLine has a line of the greeting, or finds the socket closed
ServerGreeting ==
  /\ server.pc = "greeting"
  /\ IF server.socket # "open"
     THEN server' = ServerCatch(server)
     ELSE \E line \in SmtpLines :
            server' = IF LineStartsWith(line, "220")
                      THEN sendCommand(server, "ehlo")
                      ELSE ServerCatch(server)
  /\ UNCHANGED notServer

\* the reply to EHLO; the lines left in the queue may name STARTTLS
ServerEhlo ==
  /\ server.pc = "ehlo"
  /\ IF server.socket # "open"
     THEN server' = ServerCatch(server)
     ELSE \E line \in SmtpLines, serverSupportsStartTLS \in BOOLEAN :
            server' = IF ~LineIncludes250(line)
                      THEN ServerCatch(server)
                      ELSE IF serverSupportsStartTLS
                      THEN sendCommand(server, "starttls")
                      ELSE sendCommand(server, "ehlo2")
  /\ UNCHANGED notServer

\* the reply to STARTTLS
ServerStartTls ==
  /\ server.pc = "starttls"
  /\ IF server.socket # "open"
     THEN server' = ServerCatch(server)
     ELSE \E line \in SmtpLines :
            server' = IF LineStartsWith(line, "220")
                      THEN [server EXCEPT !.pc = "tls"]
                      ELSE sendCommand(server, "ehlo2")
  /\ UNCHANGED notServer

\* upgradeToTLS: the handshake completes, or the TLS socket reports an error
ServerUpgrade ==
  /\ server.pc = "tls"
  /\ \E secured \in (IF server.socket = "open" THEN BOOLEAN ELSE {FALSE}) :
       server' = IF secured
                 THEN sendCommand([server EXCEPT !.secure = TRUE], "ehlo2")
                 ELSE ServerCatch(server)
  /\ UNCHANGED notServer

\* the reply to the second EHLO
ServerSecondEhlo ==
  /\ server.pc = "ehlo2"
  /\ IF server.socket # "open"
     THEN server' = ServerCatch(server)
     ELSE \E line \in SmtpLines :
            server' = IF ~LineIncludes250(line)
                      THEN ServerCatch(server)
                      ELSE sendCommand(server, "mailfrom")
  /\ UNCHANGED notServer

\* the reply to MAIL FROM
ServerMailFrom ==
  /\ server.pc = "mailfrom"
  /\ IF server.socket # "open"
     THEN server' = ServerCatch(server)
     ELSE \E line \in SmtpLines :
            server' = IF ~LineStartsWith(line, "250")
                      THEN ServerCatch(server)
                      ELSE sendCommand(server, "rcpt")
  /\ UNCHANGED notServer

\* the reply to RCPT TO, and the QUIT sent after it
ServerRcpt ==
  /\ server.pc = "rcpt"
  /\ IF server.socket # "open"
     THEN server' = ServerCatch(server)
     ELSE \E line \in RcptLines :
            server' = sendCommand([server EXCEPT !.rcpt = line,
                                                 !.quit = "sent"], "quit")
  /\ UNCHANGED notServer

\* the reply to QUIT: the promise is settled from the reply to RCPT TO
ServerQuit ==
  /\ server.pc = "quit"
  /\ IF server.socket # "open"
     THEN server' = ServerCatch(QuitFailed(server))
     ELSE \E line \in QuitLines :
            server' =
              ServerFinally(SettleFromRcpt([server EXCEPT !.quit = "answered"]))
  /\ UNCHANGED notServer

\* the timer of setupTimeout fires: smtpSocket.destroy() and reject
ServerTimeout ==
  /\ server.pc \in ServerWaits \cup {"connect"}
  /\ server.timer = "armed"
  /\ server' = ServerSettled(reject(cleanup(
                 [QuitFailed(server) EXCEPT !.timer = "fired"])))
  /\ UNCHANGED notServer

\* an 'error' event: the listener of the plain socket removes the timer,
\* destroys and rejects; after the upgrade the listener that upgradeToTLS
\* left on the TLS socket may be the one that runs, and it only destroys
ServerSocketError ==
  /\ server.pc \in ServerWaits \cup {"connect"}
  /\ server.socket \in {"connecting", "open", "closed"}
  /\ \E onPlainSocket \in (IF server.secure THEN BOOLEAN ELSE {TRUE}) :
       server' = IF onPlainSocket
                 THEN ServerSettled(reject(cleanup(
                        removeTimeout(QuitFailed(server)))))
                 ELSE cleanup(server)
  /\ UNCHANGED notServer

\* the server closes the connection: the socket is no longer readable
ServerCloses ==
  /\ server.pc \in ServerWaits
  /\ server.socket = "open"
  /\ server' = [server EXCEPT !.socket = "closed"]
  /\ UNCHANGED notServer

NextServer ==
  \/ PerformSmtpVerification
  \/ ServerResolveMx
  \/ ServerConnect
  \/ ServerGreeting
  \/ ServerEhlo
  \/ ServerStartTls
  \/ ServerUpgrade
  \/ ServerSecondEhlo
  \/ ServerMailFrom
  \/ ServerRcpt
  \/ ServerQuit
  \/ ServerTimeout
  \/ ServerSocketError
  \/ ServerCloses

SpecServer == Init /\ [][NextServer]_vars

(* ------------------------------------------------------------------ *)
(* Two concurrent calls of isEmailValid against one server             *)
(* ------------------------------------------------------------------ *)

TheMx == <<[exchange |-> "mx1.example.com", priority |-> 10]>>

\* what a probe has seen agrees with a server that answers every command, the
\* same command always with the same reply: one MX host that accepts the
\* connection on port 25, greets with 220, accepts EHLO without offering
\* STARTTLS and accepts MAIL FROM; the probes ask for the same address
FixedReplies ==
  /\ \A p \in Probes :
       LET rec == probe[p]
       IN  /\ rec.pc # "idle" =>
                rec.domain = "example.com" /\ rec.localPart = "alice"
           /\ rec.pc \notin {"idle", "resolveMx"} => rec.resolved = TheMx
           /\ rec.failed = {}
           /\ rec.tried # <<>> => rec.tried = <<25>> /\ rec.socket # "none"
           /\ \A k \in DOMAIN rec.sent :
                rec.sent[k].verb \notin {"HELO", "STARTTLS"}
  /\ \A p, q \in Probes :
       probe[p].rcpt # "" /\ probe[q].rcpt # "" => probe[p].rcpt = probe[q].rcpt

\* a step in which the server keeps to its replies: the cache entry made from
\* the reply to a dummy RCPT TO has the text of the entry before it
FixedStep ==
  /\ FixedReplies'
  /\ \A k \in CacheKeys :
       responseCache[k].has =>
         responseCache'[k].response = responseCache[k].response

\* the steps of one call of probe p
StepTwo(p) ==
  \/ probe[p].pc = "idle" /\ Call(p) /\ FixedStep
  \/ ResolveMx(p) /\ FixedStep
  \/ TryConnect(p) /\ FixedStep
  \/ ReadGreeting(p) /\ FixedStep
  \/ ReadEhlo(p) /\ FixedStep
  \/ ReadMailFrom(p) /\ FixedStep
  \/ ReadDummy(p) /\ FixedStep
  \/ ReadRcpt(p) /\ FixedStep
  \/ ReadQuit(p) /\ FixedStep

NextTwo == \E p \in Probes : StepTwo(p)

SpecTwo == Init /\ [][NextTwo]_vars

(* ------------------------------------------------------------------ *)
(* Properties                                                          *)
(* ------------------------------------------------------------------ *)

DummyRcpt == Cmd("RCPT TO", dummyUser)

RealRcpt(rec) == Cmd("RCPT TO", rec.localPart)

WasSent(rec, cmd) == \E k \in DOMAIN rec.sent : rec.sent[k] = cmd

\* the probe is inside the iteration of an MX record
AtRecord(rec) == rec.i \in 1..Len(rec.mx)

KeyOf(rec) == CacheKey(rec.domain, rec.mx[rec.i].exchange)

\* the reply to the real RCPT TO has arrived in this iteration
HasRcptReply(rec) == rec.rcptAt # 0 /\ rec.rcptAt = rec.i

ResultIsVerdict(rec) ==
  rec.result = Returned(rec.verdict.smtp, rec.verdict.catchall)

\* C1: isEmailValid never rejects: every finished call holds a
\* {smtp, catchall} value, and that value is {false, false} when no MX
\* host produced a verdict (this includes a failed MX lookup).
C1_NeverRejects ==
  \A p \in Probes :
    probe[p].pc = "done" =>
      /\ probe[p].result.kind = "returned"
      /\ ~probe[p].verdict.has => probe[p].result = Returned(FALSE, FALSE)

\* the record x comes before the record y in priority order, ties in the
\* order of the resolver's answer
ComesBefore(raw, x, y) ==
  LET pos(z) == CHOOSE k \in DOMAIN raw : raw[k] = z
  IN  \/ x.priority < y.priority
      \/ x.priority = y.priority /\ pos(x) < pos(y)

Decisive(m) == CodeOf(m) \in (200..299) \cup (500..599)

\* C2: the MX hosts are contacted in ascending priority order, ties in
\* resolver order, none skipped; and once a host has answered the real
\* RCPT TO with 2xx or 5xx the call ends with the verdict taken from that
\* host and no further host is contacted.
C2_PriorityOrderFirstDecisive ==
  \A p \in Probes :
    LET rec == probe[p]
        raw == rec.resolved
        n == Len(rec.contacted)
        host(k) == rec.mx[rec.contacted[k]]
    IN  /\ \A k \in 1..n : \E a \in DOMAIN raw : raw[a] = host(k)
        /\ \A j, k \in 1..n : j < k => ComesBefore(raw, host(j), host(k))
        /\ \A k \in 1..n : \A a \in DOMAIN raw :
             ComesBefore(raw, raw[a], host(k)) =>
               \E j \in 1..(k - 1) : host(j) = raw[a]
        /\ (rec.rcptAt # 0 /\ Decisive(rec.rcpt)) =>
             /\ rec.pc \in {"quit", "done"}
             /\ rec.verdict.has
             /\ rec.i = rec.rcptAt
             /\ rec.contacted[n] = rec.rcptAt
             /\ rec.pc = "done" => ResultIsVerdict(rec)

\* C2 witness: the resolver's answer was out of order, the preferred host
\* rejected the address with 550 and the second host was never contacted
C2_Witness ==
  \E p \in Probes :
    LET rec == probe[p]
    IN  /\ rec.pc = "done"
        /\ Len(rec.resolved) = 2
        /\ rec.resolved[1].priority > rec.resolved[2].priority
        /\ rec.contacted = <<1>>
        /\ rec.rcptAt = 1
        /\ CodeOf(rec.rcpt) = 550
        /\ rec.result.kind = "returned"

\* C3: a session that fails before a verdict skips its host and the next
\* record is tried; the records are attempted one after the other, none
\* twice; when every record has failed the result is {false, false}.
C3_FailedHostSkipped ==
  \A p \in Probes :
    LET rec == probe[p]
    IN  /\ \A k \in DOMAIN rec.contacted : rec.contacted[k] = k
        /\ \A k \in rec.failed :
             /\ \E j \in DOMAIN rec.contacted : rec.contacted[j] = k
             /\ \/ rec.i = k /\ rec.pc = "quit" /\ ~rec.verdict.has
                \/ rec.i > k
             /\ (rec.i > k /\ k < Len(rec.mx)) =>
                  \/ \E j \in DOMAIN rec.contacted : rec.contacted[j] = k + 1
                  \/ /\ rec.i = k + 1
                     /\ rec.pc = "done"
                     /\ rec.result = Returned(TRUE, TRUE)
        /\ (rec.pc = "done" /\ rec.mx # <<>> /\ rec.failed = 1..Len(rec.mx)) =>
             rec.result = Returned(FALSE, FALSE)

\* C3 witness: the first host failed on all three ports, the second gave
\* the verdict
C3_Witness ==
  \E p \in Probes :
    LET rec == probe[p]
    IN  /\ rec.pc = "done"
        /\ Len(rec.mx) = 2
        /\ rec.failed = {1}
        /\ rec.contacted = <<1, 2>>
        /\ rec.rcptAt = 2
        /\ rec.result = Returned(TRUE, FALSE)

\* C3 witness, second case: both hosts failed
C3_WitnessExhausted ==
  \E p \in Probes :
    /\ probe[p].pc = "done"
    /\ probe[p].failed = {1, 2}
    /\ probe[p].result = Returned(FALSE, FALSE)

\* C4: a 4xx reply to the real RCPT TO gives no verdict: the host is
\* skipped and the next record is tried.
C4_TransientRcptSkipsHost ==
  \A p \in Probes :
    LET rec == probe[p]
    IN  (rec.rcptAt # 0 /\ CodeOf(rec.rcpt) \in 400..499) =>
          /\ ~(rec.verdict.has /\ rec.i = rec.rcptAt)
          /\ rec.rcptAt \in rec.failed

\* C5: whenever the reply to the real RCPT TO has a 5xx code the call ends
\* with smtp = false, whatever the cache held.
C5_PermanentRcptIsInvalid ==
  \A p \in Probes :
    LET rec == probe[p]
    IN  (rec.pc = "done" /\ rec.rcptAt # 0 /\ CodeOf(rec.rcpt) \in 500..599) =>
          /\ rec.result.kind = "returned"
          /\ ~rec.result.smtp

\* the k-th command of the session, for the order of two commands
SentBefore(rec, a, b) ==
  \E j, k \in DOMAIN rec.sent : j < k /\ rec.sent[j] = a /\ rec.sent[k] = b

\* the cache had no entry for (domain, MX) when the iteration started
CacheMiss(rec) == AtRecord(rec) /\ ~rec.cached.has

\* the cache held an entry younger than one hour when the iteration started
CacheHit(rec) ==
  AtRecord(rec) /\ rec.cached.has /\ rec.headNow - rec.cached.timestamp < 3600000

\* the cache held an entry of one hour or older when the iteration started
CacheExpired(rec) ==
  AtRecord(rec) /\ rec.cached.has /\ rec.headNow - rec.cached.timestamp >= 3600000

\* C6: on a cache miss the dummy RCPT TO goes out before the real one; when
\* the dummy reply is 250 the cache entry of (domain, MX) is 'catch-all',
\* the call returns {true, true} and the real RCPT TO is never sent in that
\* session.
C6_DummyAcceptedIsCatchAll ==
  \A p \in Probes :
    LET rec == probe[p]
    IN  CacheMiss(rec) =>
          /\ WasSent(rec, RealRcpt(rec)) =>
               SentBefore(rec, DummyRcpt, RealRcpt(rec))
          /\ (rec.dummy # "" /\ CodeOf(rec.dummy) = 250) =>
               /\ responseCache[KeyOf(rec)].has
               /\ responseCache[KeyOf(rec)].response = "catch-all"
               /\ rec.pc \in {"quit", "done"}
               /\ rec.verdict = Verdict(TRUE, TRUE)
               /\ ~WasSent(rec, RealRcpt(rec))
               /\ rec.pc = "done" => rec.result = Returned(TRUE, TRUE)

\* C6 witness: a call that ended on a dummy RCPT TO answered with 250
C6_Witness ==
  \E p \in Probes :
    /\ probe[p].pc = "done"
    /\ CacheMiss(probe[p])
    /\ probe[p].dummy = "250 OK"
    /\ probe[p].result = Returned(TRUE, TRUE)

\* C7: on a cache miss with a dummy reply other than 250 the reply text is
\* stored for (domain, MX), the real RCPT TO is sent next, and the verdict
\* is {true, false} when the real reply is 250 and {false, false} otherwise.
C7_DummyRejectedThenRealRcpt ==
  \A p \in Probes :
    LET rec == probe[p]
    IN  (CacheMiss(rec) /\ rec.dummy # "" /\ CodeOf(rec.dummy) # 250) =>
          /\ responseCache[KeyOf(rec)].has
          /\ responseCache[KeyOf(rec)].response = rec.dummy
          /\ SentBefore(rec, DummyRcpt, RealRcpt(rec))
          /\ HasRcptReply(rec) =>
               /\ rec.verdict = Verdict(CodeOf(rec.rcpt) = 250, FALSE)
               /\ rec.pc \in {"quit", "done"}
               /\ rec.pc = "done" =>
                    rec.result = Returned(CodeOf(rec.rcpt) = 250, FALSE)

\* C7 witness: dummy rejected with 550, the real address answered with a
\* 450, the call returned {false, false}
C7_Witness ==
  \E p \in Probes :
    /\ probe[p].pc = "done"
    /\ CacheMiss(probe[p])
    /\ probe[p].dummy = "550 no such user"
    /\ HasRcptReply(probe[p])
    /\ probe[p].rcpt = "450 try later"
    /\ probe[p].result = Returned(FALSE, FALSE)

\* C7 witness, second case: dummy rejected, the real address accepted
C7_WitnessValid ==
  \E p \in Probes :
    /\ probe[p].pc = "done"
    /\ CacheMiss(probe[p])
    /\ probe[p].dummy = "550 no such user"
    /\ probe[p].rcpt = "250 OK"
    /\ probe[p].result = Returned(TRUE, FALSE)

\* C8: with an unexpired 'catch-all' entry for (domain, MX) the call
\* returns {true, true} for that MX: no connection is opened and no
\* command, so no RCPT TO, is sent.
C8_CachedCatchAllShortCircuit ==
  \A p \in Probes :
    LET rec == probe[p]
    IN  (CacheHit(rec) /\ rec.cached.response = "catch-all") =>
          /\ rec.pc = "done"
          /\ rec.result = Returned(TRUE, TRUE)
          /\ rec.socket = "none"
          /\ rec.sent = <<>>
          /\ \A k \in DOMAIN rec.contacted : rec.contacted[k] # rec.i

\* C8 witness: the entry is half an hour old and belongs to the second
\* record, reached after the first host failed
C8_Witness ==
  \E p \in Probes :
    LET rec == probe[p]
    IN  /\ rec.pc = "done"
        /\ rec.i = 2
        /\ CacheHit(rec)
        /\ rec.cached.response = "catch-all"
        /\ rec.headNow > rec.cached.timestamp
        /\ rec.result = Returned(TRUE, TRUE)

\* C9: with an unexpired reply text cached for (domain, MX) the dummy RCPT
\* TO is not sent, and after the real RCPT TO smtp is false when the reply
\* text equals the cached text and true when it differs; catchall is false.
C9_CachedTextCompared ==
  \A p \in Probes :
    LET rec == probe[p]
    IN  (CacheHit(rec) /\ rec.cached.response # "catch-all") =>
          /\ ~WasSent(rec, DummyRcpt)
          /\ rec.dummy = ""
          /\ HasRcptReply(rec) =>
               /\ rec.verdict = Verdict(rec.rcpt # rec.cached.response, FALSE)
               /\ rec.pc \in {"quit", "done"}
               /\ rec.pc = "done" =>
                    rec.result = Returned(rec.rcpt # rec.cached.response, FALSE)

\* C9 witness: the real reply repeats the cached text, smtp is false
C9_Witness ==
  \E p \in Probes :
    LET rec == probe[p]
    IN  /\ rec.pc = "done"
        /\ CacheHit(rec)
        /\ rec.cached.response = "550 no such user"
        /\ HasRcptReply(rec)
        /\ rec.rcpt = "550 no such user"
        /\ rec.result = Returned(FALSE, FALSE)

\* C9 witness, second case: the real reply differs, smtp is true
C9_WitnessDiffers ==
  \E p \in Probes :
    LET rec == probe[p]
    IN  /\ rec.pc = "done"
        /\ CacheHit(rec)
        /\ rec.cached.response = "550 no such user"
        /\ rec.rcpt = "250 OK"
        /\ rec.result = Returned(TRUE, FALSE)

\* C10: an entry older than the one hour TTL is a miss: the session sends
\* the dummy RCPT TO again before the real one and replaces the entry, and
\* the verdict is the one a miss gives (smtp = the real reply is 250).
C10_ExpiredEntryIsMiss ==
  \A p \in Probes :
    LET rec == probe[p]
    IN  (CacheExpired(rec) /\ WasSent(rec, RealRcpt(rec))) =>
          /\ SentBefore(rec, DummyRcpt, RealRcpt(rec))
          /\ responseCache[KeyOf(rec)] # rec.cached
          /\ HasRcptReply(rec) =>
               rec.verdict = Verdict(CodeOf(rec.rcpt) = 250, FALSE)

\* C10, the verdict alone: an expired reply text does not decide smtp
C10_ExpiredTextHasNoInfluence ==
  \A p \in Probes :
    LET rec == probe[p]
    IN  (CacheExpired(rec) /\ HasRcptReply(rec)) =>
          rec.verdict = Verdict(CodeOf(rec.rcpt) = 250, FALSE)

(* ------------------------------------------------------------------ *)
(* C11: dummy RCPT TOs of one (domain, MX) pair                        *)
(* ------------------------------------------------------------------ *)

\* this step writes the dummy RCPT TO of probe p
WritesDummy(p) == probe[p].pc = "mailfrom" /\ probe'[p].pc = "dummy"

\* C11 (as stated): successive probes send at most one dummy RCPT TO per
\* (domain, MX) pair within any one hour; so, during the first hour of the
\* instance (the clock starts at 0), a dummy RCPT TO is not written to a
\* pair to which one was written before, answered or not. Checked for the
\* earlier ones that got no answer.
C11_OneDummyPerHour ==
  [][\A p \in Probes :
       WritesDummy(p) /\ now < 3600000 =>
         ~dummyLog[KeyOf(probe[p])].unanswered]_vars

\* C11 (amended): successive probes send no dummy RCPT TO to a (domain, MX)
\* pair within one hour after a dummy RCPT TO to that pair was answered; a
\* dummy whose reply never arrived is repeated by the next probe.
C11_NoDummyAfterAnswered ==
  [][\A p \in Probes :
       WritesDummy(p) =>
         LET log == dummyLog[KeyOf(probe[p])]
         IN  log.answered = Never \/ now - log.answered >= 3600000]_vars

\* a later probe reaches its real RCPT TO within the hour after the pair's
\* dummy was answered, and has sent no dummy of its own
C11_Witness ==
  \E p \in Probes :
    /\ probe[p].pc = "rcpt"
    /\ ~WasSent(probe[p], DummyRcpt)
    /\ dummyLog[KeyOf(probe[p])].answered # Never
    /\ now - dummyLog[KeyOf(probe[p])].answered < 3600000

(* ------------------------------------------------------------------ *)
(* C12: order of the commands of one session                           *)
(* ------------------------------------------------------------------ *)

IsHello(cmd) == cmd.verb \in {"EHLO", "HELO"}

IsMailFrom(cmd) == cmd.verb = "MAIL FROM"

IsRcptTo(cmd) == cmd.verb = "RCPT TO"

\* the positions before k of the session's EHLO and HELO commands
HellosBefore(rec, k) == {j \in 1..(k - 1) : IsHello(rec.sent[j])}

\* command k of the session was answered with the code the caller tests for
Acked(rec, k) == k <= Len(rec.acks) /\ rec.acks[k]

\* C12 (as stated): in every session exactly one EHLO/HELO precedes MAIL FROM.
C12_ExactlyOneHello ==
  \A p \in Probes :
    \A k \in DOMAIN probe[p].sent :
      IsMailFrom(probe[p].sent[k]) =>
        Cardinality(HellosBefore(probe[p], k)) = 1

\* C12 (amended): in every session MAIL FROM is preceded by at least one
\* EHLO/HELO (more than one when HELO follows a rejected EHLO or EHLO is
\* repeated after STARTTLS), the last of them answered 250; at most one MAIL
\* FROM is
\* sent and it precedes every RCPT TO; no RCPT TO is sent in a session whose
\* MAIL FROM was not answered 250.
C12_CommandOrder ==
  \A p \in Probes :
    LET rec == probe[p]
    IN  \A k \in DOMAIN rec.sent :
          /\ IsMailFrom(rec.sent[k]) =>
                /\ \E j \in HellosBefore(rec, k) :
                     /\ Acked(rec, j)
                     /\ \A l \in HellosBefore(rec, k) : l <= j
                /\ \A l \in DOMAIN rec.sent : IsMailFrom(rec.sent[l]) => l = k
          /\ IsRcptTo(rec.sent[k]) =>
                \E j \in 1..(k - 1) : IsMailFrom(rec.sent[j]) /\ Acked(rec, j)

\* a session that needed two hellos has sent MAIL FROM and the real RCPT TO
C12_Witness ==
  \E p \in Probes :
    /\ WasSent(probe[p], Cmd("HELO", heloHost))
    /\ WasSent(probe[p], Cmd("MAIL FROM", sender))
    /\ WasSent(probe[p], RealRcpt(probe[p]))

\* the same after STARTTLS: EHLO, STARTTLS, EHLO, MAIL FROM, RCPT TO
C12_WitnessSecure ==
  \E p \in Probes :
    /\ probe[p].secure
    /\ WasSent(probe[p], Cmd("MAIL FROM", sender))
    /\ WasSent(probe[p], RealRcpt(probe[p]))

(* ------------------------------------------------------------------ *)
(* C13: QUIT and the socket at the end of a session                    *)
(* ------------------------------------------------------------------ *)

Quit == Cmd("QUIT", "")

\* this step ends the iteration probe p is in: the call returns or goes on
\* to the next MX record
SessionEnds(p) ==
  /\ probe[p].pc \notin {"idle", "resolveMx", "done"}
  /\ probe'[p].pc = "done" \/ probe'[p].i # probe[p].i

\* the iteration has connected a socket
Opened(rec) == rec.socket # "none"

\* the step is the end of the await of QUIT's reply
AfterQuit(rec) == rec.pc = "quit" /\ WasSent(rec, Quit)

\* C13 (as stated): every session that opened a socket attempts QUIT and then
\* closes the socket on every exit path, before the next MX host is
\* contacted or the probe returns.
C13_QuitOnEveryExit ==
  [][\A p \in Probes :
       SessionEnds(p) /\ Opened(probe[p]) =>
         AfterQuit(probe[p]) /\ probe'[p].live = 0]_vars

\* C13 (amended): every session that opened a socket has the socket closed
\* before the next MX host is contacted or the probe returns; it attempts
\* QUIT first on every exit path that leaves the socket open (verdict,
\* catch-all, rejected greeting/HELO/MAIL FROM, read timeout), and sends no
\* QUIT when a socket error or a failed TLS handshake has already destroyed
\* the socket; whatever becomes of QUIT, the pending verdict is returned.
C13_QuitUnlessDestroyed ==
  [][\A p \in Probes :
       /\ SessionEnds(p) /\ Opened(probe[p]) =>
            /\ probe'[p].live = 0
            /\ \/ AfterQuit(probe[p])
               \/ probe[p].socket = "destroyed"
               \/ probe[p].pc = "tls"
       /\ /\ probe[p].pc = "quit"
          /\ probe'[p].pc # "quit"
          /\ probe[p].verdict.has
          =>
            /\ probe'[p].pc = "done"
            /\ probe'[p].result = Returned(probe[p].verdict.smtp,
                                           probe[p].verdict.catchall)]_vars

\* a call has returned the verdict of a session that ended with QUIT
C13_Witness ==
  \E p \in Probes :
    /\ probe[p].pc = "done"
    /\ probe[p].verdict.has
    /\ WasSent(probe[p], Quit)
    /\ probe[p].live = 0

\* a socket error has destroyed the socket of a session that awaits a reply
C13_WitnessDestroyed ==
  \E p \in Probes :
    /\ probe[p].pc = "rcpt"
    /\ probe[p].socket = "destroyed"
    /\ probe[p].live = 0
    /\ ~WasSent(probe[p], Quit)

(* ------------------------------------------------------------------ *)
(* C14: the ports of createConnection                                  *)
(* ------------------------------------------------------------------ *)

IsPrefix(s, t) == Len(s) <= Len(t) /\ \A k \in DOMAIN s : s[k] = t[k]

\* C14: for each MX host the ports are tried in the order 25, 587, 465; the
\* first port that connects is used and no later port is tried; a port that
\* fails or times out is followed by the next one; the host counts as failed
\* at connect only after all three have failed.
C14_PortOrder ==
  [][\A p \in Probes :
       LET rec == probe[p]
           nxt == probe'[p]
       IN  /\ IsPrefix(nxt.tried, <<25, 587, 465>>)
           /\ nxt.socket # "none" =>
                 nxt.tried # <<>> /\ nxt.port = nxt.tried[Len(nxt.tried)]
           /\ rec.socket # "none" /\ nxt.i = rec.i => nxt.tried = rec.tried
           /\ rec.pc = "connect" /\ nxt # rec =>
                 \/ /\ nxt.pc = "greeting"
                    /\ nxt.socket = "open"
                    /\ Len(nxt.tried) = Len(rec.tried) + 1
                 \/ /\ nxt.pc = "connect"
                    /\ nxt.i = rec.i
                    /\ nxt.socket = "none"
                    /\ Len(nxt.tried) = Len(rec.tried) + 1
                 \/ /\ SessionEnds(p)
                    /\ rec.tried = <<25, 587>>
                    /\ rec.i \in nxt.failed]_vars

\* ports 25 and 587 have failed and the session runs on port 465
C14_Witness ==
  \E p \in Probes :
    /\ probe[p].socket = "open"
    /\ probe[p].port = 465
    /\ probe[p].tried = <<25, 587, 465>>

\* all three ports of the first host have failed and the second is tried
C14_WitnessNextHost ==
  \E p \in Probes :
    /\ probe[p].pc = "connect"
    /\ probe[p].i = 2
    /\ probe[p].contacted = <<1, 2>>
    /\ probe[p].tried = <<25>>
    /\ probe[p].acks = <<>>

(* ------------------------------------------------------------------ *)
(* C15: port 465                                                       *)
(* ------------------------------------------------------------------ *)

StartTls == Cmd("STARTTLS", "")

\* C15: a session whose connection succeeded on port 465 is TLS from the
\* first byte, so that its greeting is read over TLS, and never sends
\* STARTTLS.
C15_ImplicitTlsOn465 ==
  \A p \in Probes :
    probe[p].socket # "none" /\ probe[p].port = 465 =>
      probe[p].secure /\ ~WasSent(probe[p], StartTls)

(* ------------------------------------------------------------------ *)
(* C16 - C19: the replies readResponse resolves with                   *)
(* ------------------------------------------------------------------ *)

\* the code of the line is followed by a space, or by nothing
IsFinalLine(line) == Len(line) = 3 \/ (Len(line) > 3 /\ line[4] = " ")

\* what readResponse resolves with when the whole reply is one chunk
Whole(reply) == OnData(Bytes(reply))

\* every line of the reply has the code, and one of them names STARTTLS
Advertises(reply, code) ==
  /\ \A k \in DOMAIN reply :
       StartsWithCode(reply[k]) /\ ParseCode(reply[k]) = code
  /\ \E k \in DOMAIN reply : MessageIncludesSTARTTLS(reply[k])

\* C16: readResponse completes a reply only on a line whose code is followed
\* by a space; a continuation line (code followed by '-') never completes a
\* reply, whatever the chunk boundaries.
C16_OnlyFinalLineCompletes ==
  \A k \in DOMAIN reader.replies : IsFinalLine(reader.replies[k].message)

\* C17: reply parsing is independent of chunking: however the server's bytes
\* are split into chunks, the k-th reply the session sees is the one it sees
\* when each reply of the server arrives as one chunk.
C17_ChunkingIndependent ==
  \A k \in DOMAIN reader.replies :
    reader.replies[k] = Whole(reader.script[k])

\* C18: when the 250 reply to EHLO names STARTTLS on any of its lines, the
\* command after EHLO is STARTTLS.
C18_StartTlsOnAnyLine ==
  /\ Len(reader.cmds) >= 2
  /\ reader.cmds[1] = "EHLO"
  /\ Advertises(reader.script[2], 250)
  => reader.cmds[2] = "STARTTLS"

\* C19: a reply that starts with a character that is no digit, or whose code
\* is outside 100..599, aborts the session: once readResponse has resolved
\* for such a reply the session sends nothing more.
C19_ProtocolViolationAborts ==
  \A k \in DOMAIN reader.replies :
    \/ reader.replies[k].code \notin 100..599
    \/ reader.script[k][1][1] \notin Digits
    => reader.pc = "aborted"

(* ------------------------------------------------------------------ *)
(* C20: a TLS handshake that fails after STARTTLS was accepted         *)
(* ------------------------------------------------------------------ *)

\* C20: after the server has accepted STARTTLS with 220, the session is not
\* abandoned whatever becomes of the handshake: it goes on to the EHLO on
\* the upgraded socket, or in plaintext to MAIL FROM on the same MX host.
C20_HandshakeFailureGoesOn ==
  [][\A p \in Probes :
       probe[p].pc = "tls" /\ probe'[p] # probe[p] =>
         /\ probe'[p].pc \in {"secureEhlo", "mailfrom"}
         /\ probe'[p].i = probe[p].i]_vars

(* ------------------------------------------------------------------ *)
(* C21: the HELO fallback                                              *)
(* ------------------------------------------------------------------ *)

\* C21: whenever an EHLO of a session, before or after the TLS upgrade, is
\* answered with a code other than 250, the next command of the session is
\* HELO.
C21_HeloAfterEveryRejectedEhlo ==
  \A p \in Probes :
    LET rec == probe[p]
    IN  \A k \in DOMAIN rec.acks :
          (rec.sent[k] = Cmd("EHLO", heloHost) /\ ~Acked(rec, k)) =>
            (k < Len(rec.sent) /\ rec.sent[k + 1] = Cmd("HELO", heloHost))

(* ------------------------------------------------------------------ *)
(* C22: no pipelining                                                  *)
(* ------------------------------------------------------------------ *)

\* C22: a command is written only after the complete reply to the previous
\* command, or the greeting, has been received: at the write no byte of what
\* the server has sent is still to be read.
C22_WriteAfterCompleteReply ==
  [][Len(reader'.cmds) > Len(reader.cmds) => reader'.wire = <<>>]_vars

(* ------------------------------------------------------------------ *)
(* C23 - C26: the stages of verifyEmail                                *)
(* ------------------------------------------------------------------ *)

\* C23: when the format validator rejects the input, verifyEmail returns an
\* invalid result at once: no other stage is called, no DNS query is made and
\* no socket is connected.
C23_InvalidFormatReturnsAtOnce ==
  verify.pc # "idle" /\ ~verify.result.checks.formatValid =>
    /\ verify.pc = "returned"
    /\ ~verify.result.isValid
    /\ verify.io = {}
    /\ Len(verify.log) = 1
    /\ verify.log[1].stage = "format"

\* a call has returned for an input the validator rejected
C23_Witness ==
  /\ verify.pc = "returned"
  /\ ~verify.result.checks.formatValid
  /\ verify.result.reason = "Invalid email format"

StageOrder == <<"format", "disposable", "domain", "mx", "smtp", "catchAll">>

Stages(v) == [k \in DOMAIN v.log |-> v.log[k].stage]

\* the stage let the call go on: the disposable check by answering false, the
\* others by answering true
Passed(entry) == entry.value = (entry.stage # "disposable")

\* the inputs whose domain is, or is a subdomain of, a well-known provider
WellKnownInputs ==
  {<<"gmail", ".", "com">>, <<"mail", ".", "GMAIL", ".", "com">>}

ConnectedSocket(v) == \E entry \in v.io : entry[2] = "tcp"

\* C24: the stages run in the order format, disposable, domain-exists,
\* MX-present, well-known shortcut, SMTP; a stage up to SMTP runs only if
\* every earlier one passed; a socket is connected only in the SMTP stage,
\* which a well-known domain never enters: it gets smtpValid = true instead.
C24_StagesInOrder ==
  /\ IsPrefix(Stages(verify), StageOrder)
  /\ \A k \in DOMAIN verify.log :
       k < Len(verify.log) /\ k <= 4 => Passed(verify.log[k])
  /\ ConnectedSocket(verify) => Len(verify.log) >= 5
  /\ Len(verify.log) >= 5 => verify.punycodeDomain \notin WellKnownInputs
  /\ /\ verify.pc = "returned"
     /\ verify.punycodeDomain \in WellKnownInputs
     /\ Len(verify.log) = 4
     /\ Passed(verify.log[4])
     /\ ~verify.caught
     => verify.result.checks.smtpValid /\ ~ConnectedSocket(verify)

\* the SMTP stage was entered and connected a socket
C24_Witness ==
  /\ verify.pc = "returned"
  /\ Stages(verify) = StageOrder
  /\ <<"smtp", "tcp">> \in verify.io

\* a subdomain of a well-known provider took the shortcut
C24_WitnessWellKnown ==
  /\ verify.pc = "returned"
  /\ verify.punycodeDomain = <<"mail", ".", "GMAIL", ".", "com">>
  /\ verify.result.checks.smtpValid
  /\ verify.result.isValid

FlagOf(stage) ==
  CASE stage = "format" -> "formatValid"
    [] stage = "disposable" -> "disposable"
    [] stage = "domain" -> "domainExists"
    [] stage = "mx" -> "hasMxRecord"
    [] stage = "smtp" -> "smtpValid"
    [] stage = "catchAll" -> "catchAll"

\* C25: verifyEmail never throws; when a stage throws, a result is returned
\* in which the flag of every stage that completed has the value the stage
\* returned and every other flag is false.
C25_NeverThrows ==
  /\ verify.pc # "threw"
  /\ verify.pc = "returned" /\ verify.caught =>
       \A k \in DOMAIN StageOrder :
         verify.result.checks[FlagOf(StageOrder[k])] =
           IF k <= Len(verify.log) THEN verify.log[k].value ELSE FALSE

\* hasMxRecord threw after three stages had completed
C25_Witness ==
  /\ verify.pc = "returned"
  /\ verify.caught
  /\ verify.result.checks.domainExists
  /\ verify.result.reason = "Verification process failed"

\* C26: in every result verifyEmail returns, catchAll = true implies
\* smtpValid = true.
C26_CatchAllImpliesSmtpValid ==
  verify.pc = "returned" =>
    (verify.result.checks.catchAll => verify.result.checks.smtpValid)

(* ------------------------------------------------------------------ *)
(* C27 - C29: checkDomainExists                                        *)
(* ------------------------------------------------------------------ *)

\* the dnsResolve calls of the current call for one record type
QueriesOf(type) == {k \in DOMAIN lookup.queries : lookup.queries[k].type = type}

NoTransportError ==
  \A k \in DOMAIN lookup.queries : lookup.queries[k].answer # "ETIMEOUT"

\* C27: a negative answer to the A query is not an error: the AAAA query is
\* issued, and a domain with no A record but with an AAAA record is reported
\* as existing.
C27_AaaaAfterNegativeA ==
  /\ lookup.pc = "done"
  /\ ~lookup.zone.A
  /\ lookup.zone.AAAA
  /\ NoTransportError
  => lookup.result /\ QueriesOf("AAAA") # {}

\* the retry count as configured, 2 when it is not configured
ConfiguredRetries ==
  IF lookup.config.DNS_RETRIES.kind = "undefined"
  THEN 2
  ELSE lookup.config.DNS_RETRIES.n

\* C28: each DNS query is attempted at most N + 1 times, N being the
\* configured DNS_RETRIES (2 when not configured); N = 0 means one attempt.
C28_AtMostNPlusOneAttempts ==
  \A type \in {"A", "AAAA"} :
    Cardinality(QueriesOf(type)) <= ConfiguredRetries + 1

\* every attempt of the query failed and no retry is left
Exhausted(type) ==
  /\ Cardinality(QueriesOf(type)) = lookup.retryOptions.retries.n + 1
  /\ \A k \in QueriesOf(type) : lookup.queries[k].answer # "records"

\* C29: checkDomainExists never throws; when a query still fails after its
\* retries are exhausted, the result is false.
C29_ExhaustedGivesFalse ==
  lookup.pc = "done" /\ (\E type \in {"A", "AAAA"} : Exhausted(type)) =>
    ~lookup.result

(* ------------------------------------------------------------------ *)
(* C30: two concurrent probes of one (domain, MX)                      *)
(* ------------------------------------------------------------------ *)

\* what one probe alone returns, its cache empty, from a server whose reply
\* to the dummy RCPT TO made the entry and whose reply to the real one is rcpt
Alone(entry, rcpt) ==
  IF entry.response = CatchAllTag
  THEN Returned(TRUE, TRUE)
  ELSE Returned(CodeOf(rcpt) = 250, FALSE)

\* C30: when two probes of the same (domain, MX) run concurrently against a
\* server with fixed replies, under every interleaving both return the
\* verdict a single probe alone would return.
C30_ConcurrentAsAlone ==
  (\A p \in Probes : probe[p].pc = "done") =>
    \A p \in Probes :
      probe[p].result =
        Alone(responseCache[CacheKey("example.com", "mx1.example.com")],
              probe[p].rcpt)

(* ------------------------------------------------------------------ *)
(* One probe under fair scheduling                                     *)
(* ------------------------------------------------------------------ *)

\* the steps that settle what a call awaits: the answer of the MX lookup, a
\* connection or its error or timer, a reply or the timer of readResponse,
\* the handshake or its error or timer
Settles(p) ==
  \/ ResolveMxFails(p)
  \/ ResolveMx(p)
  \/ TryConnect(p)
  \/ ReadGreeting(p)
  \/ ReadEhlo(p)
  \/ ReadHelo(p)
  \/ ReadStartTls(p)
  \/ UpgradeToTLS(p)
  \/ ReadSecureEhlo(p)
  \/ ReadMailFrom(p)
  \/ ReadDummy(p)
  \/ ReadRcpt(p)
  \/ ReadQuit(p)

\* successive calls of one probe, the clock standing still
NextLive == Step("p1")

\* the event loop runs every timer and every callback that is due
SpecLive == Init /\ [][NextLive]_vars /\ WF_vars(Settles("p1"))

(* ------------------------------------------------------------------ *)
(* C32: STARTTLS after the HELO fallback                               *)
(* ------------------------------------------------------------------ *)

\* C32: a session that fell back to HELO never sends STARTTLS, whatever the
\* text of the rejected EHLO reply.
C32_NoStartTlsAfterHelo ==
  \A p \in Probes :
    WasSent(probe[p], Cmd("HELO", heloHost)) => ~WasSent(probe[p], StartTls)

(* ------------------------------------------------------------------ *)
(* C31: the commands around STARTTLS                                   *)
(* ------------------------------------------------------------------ *)

\* C31: STARTTLS is sent at most once per session; when it was answered 220
\* and a command other than the QUIT of a failed handshake follows, that
\* command is EHLO on the secured transport, and MAIL FROM comes directly
\* after that EHLO and only when it was answered 250; when STARTTLS was
\* answered with another code, MAIL FROM follows it directly, in plaintext.
C31_StartTlsSequence ==
  \A p \in Probes :
    LET rec == probe[p]
        s == rec.sent
    IN  \A j \in DOMAIN s :
          s[j] = StartTls =>
            /\ \A k \in DOMAIN s : s[k] = StartTls => k = j
            /\ Acked(rec, j) /\ j < Len(s) /\ s[j + 1] # Quit =>
                 s[j + 1] = Cmd("EHLO", heloHost) /\ rec.secure
            /\ Acked(rec, j) =>
                 \A k \in DOMAIN s :
                   k > j /\ IsMailFrom(s[k]) =>
                     /\ k = j + 2
                     /\ s[j + 1] = Cmd("EHLO", heloHost)
                     /\ Acked(rec, j + 1)
                     /\ rec.secure
            /\ j <= Len(rec.acks) /\ ~rec.acks[j] =>
                 /\ j < Len(s)
                 /\ IsMailFrom(s[j + 1])
                 /\ ~rec.secure

\* a session upgraded to TLS has sent EHLO again and then MAIL FROM
C31_Witness ==
  \E p \in Probes :
    /\ WasSent(probe[p], StartTls)
    /\ probe[p].secure
    /\ probe[p].pc = "mailfrom"

(* ------------------------------------------------------------------ *)
(* C33: the well-known providers                                       *)
(* ------------------------------------------------------------------ *)

\* the lower-cased domain is an entry of the set, or what follows one of its
\* dots is
IsOrIsUnder(domain, entries) ==
  LET d == toLowerCase(domain)
  IN  \/ d \in entries
      \/ \E k \in DOMAIN d :
           d[k] = "." /\ SubSeq(d, k + 1, Len(d)) \in entries

\* the MX stage passed and no stage threw
PastMx(v) ==
  /\ Len(v.log) >= 4
  /\ Passed(v.log[4])
  /\ ~(v.caught /\ Len(v.log) = 4)

\* C33: a domain past the MX stage takes the shortcut exactly when, lower
\* case, it is a well-known entry or ends with a dot followed by one; every
\* other domain, one that merely ends with the text of an entry included,
\* enters the SMTP stage.
C33_WellKnownExactly ==
  PastMx(verify) =>
    LET shortcut == verify.pc = "returned" /\ Len(verify.log) = 4
        smtpStage == verify.pc = "smtp" \/ Len(verify.log) >= 5
    IN  /\ shortcut <=> IsOrIsUnder(verify.punycodeDomain, wellKnownDomains)
        /\ smtpStage <=> ~shortcut

\* notgmail.com, which ends with the text gmail.com, is in the SMTP stage
C33_Witness ==
  /\ verify.pc = "smtp"
  /\ verify.punycodeDomain = <<"not", "gmail", ".", "com">>

(* ------------------------------------------------------------------ *)
(* C35: the two flags of a returned value                              *)
(* ------------------------------------------------------------------ *)

\* C35: every value isEmailValid returns has smtp = true when it has
\* catchall = true.
C35_CatchAllImpliesSmtp ==
  \A p \in Probes :
    probe[p].result.kind = "returned" =>
      (probe[p].result.catchall => probe[p].result.smtp)

\* a call has returned catchall = true after its dummy RCPT TO was accepted
C35_Witness ==
  \E p \in Probes :
    /\ probe[p].pc = "done"
    /\ probe[p].result.kind = "returned"
    /\ probe[p].result.catchall
    /\ WasSent(probe[p], DummyRcpt)

(* ------------------------------------------------------------------ *)
(* C36: a first and a repeated probe of one address                    *)
(* ------------------------------------------------------------------ *)

\* the call has returned after the real RCPT TO was answered
Answered(rec) ==
  rec.pc = "done" /\ rec.result.kind = "returned" /\ rec.rcpt # ""

\* C36: against a server with fixed replies, a probe that found the cache
\* empty and a probe of the same address that found the text of the dummy
\* reply in it return the same verdict.
C36_RepeatedAsFirst ==
  \A p, q \in Probes :
    /\ Answered(probe[p])
    /\ Answered(probe[q])
    /\ ~probe[p].cached.has
    /\ probe[q].cached.has
    /\ probe[q].cached.response # CatchAllTag
    => probe[q].result = probe[p].result

(* ------------------------------------------------------------------ *)
(* C34: every call completes                                           *)
(* ------------------------------------------------------------------ *)

\* the MX lookup has answered with a list and the call has not returned
InSession(rec) == rec.pc \notin {"idle", "resolveMx", "done"}

\* C34: once the MX lookup has answered, the call completes, whatever the
\* servers send or fail to send.
C34_EveryCallCompletes ==
  \A p \in Probes : InSession(probe[p]) ~> probe[p].pc = "done"

\* a server accepted the connection, greeted and left EHLO unanswered: the
\* timer of readResponse has fired and the call has gone on to QUIT
C34_Witness ==
  \E p \in Probes :
    /\ probe[p].pc = "quit"
    /\ probe[p].socket = "open"
    /\ probe[p].sent = <<Cmd("EHLO", heloHost), Quit>>
    /\ probe[p].acks = <<>>

(* ------------------------------------------------------------------ *)
(* C37: QUIT in verifyWithServer                                       *)
(* ------------------------------------------------------------------ *)

\* C37: whatever becomes of QUIT, a verifyWithServer that received the reply
\* to RCPT TO resolves true when it was 250 and false when it was 550, and
\* every verifyWithServer that has settled left its socket destroyed and no
\* timer armed.
C37_QuitIsBestEffort ==
  \A k \in DOMAIN server.sessions :
    LET s == server.sessions[k]
    IN  /\ s.rcpt # "" /\ LineStartsWith(s.rcpt, "250") => s.settled = "true"
        /\ s.rcpt # "" /\ LineStartsWith(s.rcpt, "550") => s.settled = "false"
        /\ s.socket = "destroyed"
        /\ s.timer # "armed"

====
